---- MODULE Spec2Model ----
(***************************************************************************)
(* Multi-period clinker transport planning (Zala0007/AIDTM, backend).      *)
(*                                                                         *)
(* The module models                                                       *)
(*   - the three PuLP solvers solve_clinker_transport,                     *)
(*     solve_clinker_transport_advanced and solve_supply_chain: the model  *)
(*     they build, the backend's answer and the plan they extract,         *)
(*   - the fallback orchestrator solve_with_emergency_fallback,            *)
(*   - the strategic-constraint compilers (PuLP) and the Pyomo applicator, *)
(*   - request validation (both request models) and the end-to-end         *)
(*     scenarios S2, S3 and S5.                                            *)
(*                                                                         *)
(* Quantities are naturals (units of clinker); Python's None is the        *)
(* number None for optional numbers and the string NoneStr for optional    *)
(* strings.  The MILP backend (CBC behind PuLP) is a nondeterministic      *)
(* choice: a termination code and, for code Optimal, any minimum-cost      *)
(* point of the model that was built.                                      *)
(***************************************************************************)
EXTENDS Integers, Sequences, FiniteSets, TLC

VARIABLES
    entry,      \* the operation that is executing
    req,        \* its input: an OptimizationRequest (the payload, while pc =
                \* "validate"), or the tables, file or query of a loader
    rows,       \* its strategic rows (constraint_rows / constraints_list)
    emergency,  \* enable_emergency_sourcing of a direct solve_supply_chain call
    pc,         \* position of the operation
    idx,        \* strategic compiler: index of the next row (enumerate(rows))
    cons,       \* strategic compiler: the constraints added so far, by name
    qtyIndex,   \* Pyomo applicator: index set of model.qty
    vals,       \* variable values of the last Optimal solve
    base,       \* orchestrator: result of the base solve
    fallback,   \* orchestrator: result of the emergency-enabled solve
    solves,     \* the solver invocations made so far: <<emergency flag, status>>
    result,     \* the SolveResult returned
    response,   \* the OptimizationResponse built from it by the endpoint
    store,      \* process-wide state: the loader's cache, uploaded_data_store
    returned    \* loader and lookups: what the calls so far returned, in order

vars == <<entry, req, rows, emergency, pc, idx, cons, qtyIndex, vals, base,
          fallback, solves, result, response, store, returned>>

----------------------------------------------------------------------------
(* Bounds of the model *)

MaxT == 2          \* horizons 1..MaxT
MaxQty == 2        \* shipped quantity per (route, mode, period): 0..MaxQty
MaxRows == 2       \* strategic rows per call

(* no process-wide state is held *)
NoStore == <<>>

(* Python's None for Optional[float] fields; every real value is >= 0 *)
None == -1
(* Python's None for Optional[str] fields *)
NoneStr == "None"

(* default of emergency_unit_cost *)
emergency_unit_cost == 1000000

----------------------------------------------------------------------------
(* Generic helpers *)

Range(s) == {s[i] : i \in DOMAIN s}

RECURSIVE SumSeq(_)
SumSeq(s) == IF s = <<>> THEN 0 ELSE Head(s) + SumSeq(Tail(s))

RECURSIVE SetToSeq(_)
SetToSeq(S) == IF S = {} THEN <<>>
               ELSE LET x == CHOOSE y \in S : TRUE IN <<x>> \o SetToSeq(S \ {x})

MinOf(S) == CHOOSE x \in S : \A y \in S : x <= y

MaxOf(S) == CHOOSE x \in S : \A y \in S : y <= x

(* str.lower() on the codes of the model *)
Lower(s) == CASE s = "Road" -> "road"
              [] s = "ROAD" -> "road"
              [] s = "RAIL" -> "rail"
              [] s = " ROAD " -> " road "
              [] s = "l" -> "l"
              [] s = "T1" -> "t1"
              [] s = "T2" -> "t2"
              [] OTHER -> s

(* str.upper() on the bound kinds of the model *)
Upper(s) == CASE s = "l" -> "L"
              [] s = "u" -> "U"
              [] s = "e" -> "E"
              [] s = "g" -> "G"
              [] OTHER -> s

(* str.strip() on the codes of the model *)
Strip(s) == CASE s = " road" -> "road"
              [] s = " ROAD " -> "ROAD"
              [] s = " road " -> "road"
              [] s = "C1 " -> "C1"
              [] s = " P1" -> "P1"
              [] s = " " -> ""
              [] s = " G " -> "G"
              [] OTHER -> s

(* Python's ordering of the strings of the model (code points) *)
StrRank(s) == CASE s = "" -> 0
                [] s = "R1" -> 1
                [] s = "R2" -> 2
                [] s = "R3" -> 3
                [] s = "Road" -> 4
                [] s = "rail" -> 5
                [] s = "road" -> 6
                [] OTHER -> 7

----------------------------------------------------------------------------
(* The request: plants, routes with their modes, demand *)

PlantIds(r) == {r.plants[i].id : i \in DOMAIN r.plants}

(* req.demand.get(plant_id, [0.0] * T)[t - 1] *)
demand_of(r, plant_id, t) ==
    IF plant_id \in DOMAIN r.demand THEN r.demand[plant_id][t] ELSE 0

(* The (route, mode) entries in the order of the loops                     *)
(* "for r in routes: for mode in r.modes".                                 *)
ModeEntries(r) ==
    [j \in DOMAIN r.modes |->
        [route_id |-> r.id, origin_id |-> r.origin_id,
         destination_id |-> r.destination_id,
         sbq |-> r.minimum_shipment_batch_quantity,
         mode |-> r.modes[j].mode, unit_cost |-> r.modes[j].unit_cost,
         capacity_per_trip |-> r.modes[j].capacity_per_trip]]

RECURSIVE Entries(_)
Entries(routes) ==
    IF routes = <<>> THEN <<>>
    ELSE ModeEntries(Head(routes)) \o Entries(Tail(routes))

(* key = (r.id, mode.mode, t): the keys of the dictionaries q and trips.   *)
(* Two entries with the same route id and mode code share one key, and so  *)
(* one Qty and one Trips variable.                                         *)
KeyOf(e, t) == <<e.route_id, e.mode, t>>

KeyPairs(E) == {<<E[i].route_id, E[i].mode>> : i \in DOMAIN E}

Keys(E, T) == {<<kp[1], kp[2], t>> : kp \in KeyPairs(E), t \in 1..T}

(* route_by_id = {r.id: r for r in routes}: the last route of that id *)
route_by_id(routes, id) ==
    routes[CHOOSE i \in DOMAIN routes :
              /\ routes[i].id = id
              /\ \A j \in DOMAIN routes : routes[j].id = id => j <= i]

----------------------------------------------------------------------------
(* Strategic rows and the PuLP compilers *)

(* Python truthiness of an Optional[str] *)
Truthy(s) == s # NoneStr /\ s # ""

(* ConstraintRow: the field constraints, checked on the raw values *)
RowAccepted(raw) ==
    /\ raw.iu_code # NoneStr /\ raw.iu_code # ""
    /\ raw.time_period >= 1
    /\ raw.bound_type \in {"L", "U", "E", "G"}
    /\ raw.value >= 0

(* a validator that leaves the bound kind as given *)
trim_codes_keep_bound(raw) ==
    [iu_code |-> Strip(raw.iu_code),
     transport_code |-> IF Truthy(raw.transport_code)
                        THEN Strip(raw.transport_code) ELSE raw.transport_code,
     iugu_code |-> IF Truthy(raw.iugu_code)
                   THEN Strip(raw.iugu_code) ELSE raw.iugu_code,
     time_period |-> raw.time_period,
     bound_type |-> raw.bound_type,
     value |-> raw.value]

(* ConstraintRow._trim_codes: the validated row *)
trim_codes(raw) ==
    [iu_code |-> Strip(raw.iu_code),
     transport_code |-> IF Truthy(raw.transport_code)
                        THEN Strip(raw.transport_code) ELSE raw.transport_code,
     iugu_code |-> IF Truthy(raw.iugu_code)
                   THEN Strip(raw.iugu_code) ELSE raw.iugu_code,
     time_period |-> raw.time_period,
     bound_type |-> IF raw.bound_type = "G" THEN "L" ELSE raw.bound_type,
     value |-> raw.value]

(* a selection that does not look at the route's origin *)
matching_vars_any_origin(E, T, iu, dst, mode_code, t) ==
    LET target_mode == IF Truthy(mode_code) THEN Lower(mode_code) ELSE NoneStr
        Sel(e) == /\ (Truthy(dst) => e.destination_id = dst)
                  /\ (Truthy(target_mode) => Lower(e.mode) = target_mode)
                  /\ t \in 1..T
        picked == SelectSeq(E, Sel)
    IN  [i \in DOMAIN picked |-> KeyOf(picked[i], t)]

(* _matching_vars / _get_matching_vars: the keys of the selected Qty       *)
(* variables, in the order found                                           *)
matching_vars(E, T, iu, dst, mode_code, t) ==
    LET target_mode == IF Truthy(mode_code) THEN Lower(mode_code) ELSE NoneStr
        Sel(e) == /\ e.origin_id = iu
                  /\ (Truthy(dst) => e.destination_id = dst)
                  /\ (Truthy(target_mode) => Lower(e.mode) = target_mode)
                  /\ t \in 1..T
        picked == SelectSeq(E, Sel)
    IN  [i \in DOMAIN picked |-> KeyOf(picked[i], t)]

(* the three scopes of a row *)
vars_for_row(E, T, row) ==
    LET iu == row.iu_code
        mode_code == row.transport_code
        dst == row.iugu_code
        t == row.time_period
    IN  IF ~Truthy(dst) /\ ~Truthy(mode_code)
        THEN matching_vars(E, T, iu, NoneStr, NoneStr, t)
        ELSE IF ~Truthy(dst) /\ Truthy(mode_code)
        THEN matching_vars(E, T, iu, NoneStr, mode_code, t)
        ELSE matching_vars(E, T, iu, dst, mode_code, t)

(* optimizer.py: L (>=), U (<=), anything else (=) *)
dyn_relation(bound_type) ==
    IF bound_type = "L" THEN ">="
    ELSE IF bound_type = "U" THEN "<=" ELSE "=="

(* advanced_optimizer.py: bound_type.upper(); L, G (>=), U (<=), E (=);    *)
(* any other kind adds nothing                                             *)
adv_relation(bound_type) ==
    LET b == Upper(bound_type)
    IN  IF b \in {"L", "G"} THEN ">="
        ELSE IF b = "U" THEN "<="
        ELSE IF b = "E" THEN "==" ELSE "none"

(* a constraint name without the row index *)
dyn_cname_no_idx(row, i) ==
    <<"DynConstr", row.iu_code,
      IF Truthy(row.transport_code) THEN row.transport_code ELSE "all",
      IF Truthy(row.iugu_code) THEN row.iugu_code ELSE "all",
      row.time_period, 0>>

(* cname: f"DynConstr_{iu}_{mode_code or 'all'}_{dst or 'all'}_{t}_{idx}"  *)
dyn_cname(row, i) ==
    <<"DynConstr", row.iu_code,
      IF Truthy(row.transport_code) THEN row.transport_code ELSE "all",
      IF Truthy(row.iugu_code) THEN row.iugu_code ELSE "all",
      row.time_period, i>>

(* cname: f"Strategic_{iu}_{scope}_T{t}_{idx}" *)
adv_cname(row, i) ==
    <<"Strategic", row.iu_code,
      IF ~Truthy(row.iugu_code) /\ ~Truthy(row.transport_code) THEN <<"global">>
      ELSE IF ~Truthy(row.iugu_code) THEN <<"mode", row.transport_code>>
      ELSE <<"route", row.iugu_code,
             IF Truthy(row.transport_code) THEN row.transport_code ELSE "any">>,
      row.time_period, i>>

(* The constraints of a model: a dictionary by name.  "model += c, name"   *)
(* raises PulpError for a name the model already holds.                    *)
NoConstraints == [byName |-> <<>>, error |-> FALSE]

AddConstraint(m, name, c) ==
    IF m.error THEN m
    ELSE IF name \in DOMAIN m.byName THEN [m EXCEPT !.error = TRUE]
    ELSE [m EXCEPT !.byName = (name :> c) @@ m.byName]

(* one iteration of "for idx, row in enumerate(rows)"; i is the 0-based idx *)
apply_dynamic_row(m, E, T, row, i) ==
    LET vs == vars_for_row(E, T, row)
    IN  IF row.time_period < 1 \/ row.time_period > T THEN m
        ELSE IF vs = <<>> THEN m
        ELSE AddConstraint(m, dyn_cname(row, i),
                 [vars |-> vs, rel |-> dyn_relation(row.bound_type),
                  value |-> row.value])

apply_strategic_row_advanced(m, E, T, row, i) ==
    LET vs == vars_for_row(E, T, row)
    IN  IF row.time_period < 1 \/ row.time_period > T THEN m
        ELSE IF vs = <<>> THEN m
        ELSE IF adv_relation(row.bound_type) = "none" THEN m
        ELSE AddConstraint(m, adv_cname(row, i),
                 [vars |-> vs, rel |-> adv_relation(row.bound_type),
                  value |-> row.value])

(* the whole loop, from row index i (1-based position i + 1) on *)
RECURSIVE apply_dynamic_constraints(_, _, _, _, _)
apply_dynamic_constraints(m, E, T, rs, i) ==
    IF i >= Len(rs) THEN m
    ELSE apply_dynamic_constraints(
             apply_dynamic_row(m, E, T, rs[i + 1], i), E, T, rs, i + 1)

RECURSIVE apply_strategic_constraints_advanced(_, _, _, _, _)
apply_strategic_constraints_advanced(m, E, T, rs, i) ==
    IF i >= Len(rs) THEN m
    ELSE apply_strategic_constraints_advanced(
             apply_strategic_row_advanced(m, E, T, rs[i + 1], i), E, T, rs, i + 1)

----------------------------------------------------------------------------
(* The MILP the solvers build.  variant is "basic" (optimizer.py),         *)
(* "advanced" (advanced_optimizer.py) or "supply" (solver_logic.py).       *)

(* The quantity figures of a model: inventories, capacities, safety        *)
(* stocks, production caps, batch quantities, trip capacities, demands    *)
(* and the values of the strategic constraints                            *)
Figures(r, E, strategic) ==
    UNION {{r.plants[i].initial_inventory, r.plants[i].max_capacity,
            r.plants[i].safety_stock,
            r.plants[i].max_production_per_period} : i \in DOMAIN r.plants}
    \cup UNION {{E[i].sbq, E[i].capacity_per_trip} : i \in DOMAIN E}
    \cup UNION {Range(r.demand[id]) : id \in DOMAIN r.demand}
    \cup {strategic.byName[n].value : n \in DOMAIN strategic.byName}

(* The continuous variables are searched on the multiples of the greatest *)
(* common divisor of the figures: with every figure a multiple of it, a   *)
(* minimum-cost point with such values exists whenever one exists.        *)
Unit(r, E, strategic) ==
    LET P == {x \in Figures(r, E, strategic) : x > 0}
        Divides(d) == \A x \in P : x % d = 0
    IN  IF P = {} THEN 1
        ELSE CHOOSE d \in 1..MinOf(P) :
                 Divides(d) /\ \A e \in 1..MinOf(P) : Divides(e) => e <= d

CeilDiv(a, b) == (a + b - 1) \div b

(* The number of grid steps a quantity is searched over: MaxQty, or what   *)
(* it takes to cover the largest demand of a period with full trips       *)
QSteps(r, E, unit) ==
    LET dems == UNION {Range(r.demand[id]) : id \in DOMAIN r.demand}
        need == {E[i].capacity_per_trip * CeilDiv(d, E[i].capacity_per_trip) :
                 i \in DOMAIN E, d \in dems}
    IN  MaxOf({MaxQty} \cup {CeilDiv(x, unit) : x \in need})

(* the largest Trips value searched: MaxQty, or the trips of the largest  *)
(* quantity searched                                                      *)
TripsBound(E, qmax) ==
    MaxOf({MaxQty} \cup {CeilDiv(qmax, E[i].capacity_per_trip) : i \in DOMAIN E})

(* the grid the variables of a model are searched on *)
SearchGrid(r, E, strategic) ==
    LET unit == Unit(r, E, strategic)
        steps == QSteps(r, E, unit)
    IN  [unit |-> unit, steps |-> steps, trips |-> TripsBound(E, steps * unit)]

QDomain(M) == {k * M.grid.unit : k \in 0..M.grid.steps}

(* Two entries with one key make two constraints of one name where the     *)
(* capacity constraints are named (Cap_..., ShipCapacity_...)              *)
NamedCapCollision(E) ==
    \E i, j \in DOMAIN E :
        i # j /\ E[i].route_id = E[j].route_id /\ E[i].mode = E[j].mode

(* a model built without the Emergency variables *)
BuildModelNoEmergency(variant, r, rs, em) ==
    [variant |-> variant, req |-> r, E |-> Entries(r.routes),
     emergency |-> FALSE, strategic |-> NoConstraints,
     grid |-> SearchGrid(r, Entries(r.routes), NoConstraints),
     raised |-> variant # "basic" /\ NamedCapCollision(Entries(r.routes))]

BuildModel(variant, r, rs, em) ==
    LET E == Entries(r.routes)
        strategic ==
            IF rs = <<>> \/ variant = "supply" THEN NoConstraints
            ELSE IF variant = "basic"
            THEN apply_dynamic_constraints(NoConstraints, E, r.T, rs, 0)
            ELSE apply_strategic_constraints_advanced(NoConstraints, E, r.T, rs, 0)
    IN  [variant |-> variant, req |-> r, E |-> E,
         emergency |-> (variant = "supply" /\ em),
         strategic |-> strategic,
         grid |-> SearchGrid(r, E, strategic),
         raised |-> \/ (variant # "basic" /\ NamedCapCollision(E))
                    \/ strategic.error]

(* received_expr / inflow_expr: lpSum over the entries with destination p  *)
received_expr(E, qt, p) ==
    SumSeq([i \in DOMAIN E |->
               IF E[i].destination_id = p
               THEN qt[<<E[i].route_id, E[i].mode>>] ELSE 0])

(* shipped_expr / outflow_expr: lpSum over the entries with origin p *)
shipped_expr(E, qt, p) ==
    SumSeq([i \in DOMAIN E |->
               IF E[i].origin_id = p
               THEN qt[<<E[i].route_id, E[i].mode>>] ELSE 0])

(* a balance that leaves the demand out *)
InvBalNoDemand(prev_inv, prod_term, received, shipped, dem) ==
    prev_inv + prod_term + received - shipped

(* the right-hand side of the inventory balance constraint *)
InvBal(prev_inv, prod_term, received, shipped, dem) ==
    prev_inv + prod_term + received - shipped - dem

(* Trips values with the capacity link only *)
TripsChoicesNoSBQ(M, kp, qv) ==
    {n \in 0..M.grid.trips :
        \A i \in DOMAIN M.E :
            (M.E[i].route_id = kp[1] /\ M.E[i].mode = kp[2]) =>
                qv <= n * M.E[i].capacity_per_trip}

(* Trips values without the two link constraints *)
TripsChoicesUnlinked(M, kp, qv) == 0..M.grid.trips

(* Trips values that satisfy q <= trips * cap and q >= trips * sbq for     *)
(* every entry of the key (advanced: the SBQ link only when sbq > 0)       *)
TripsChoices(M, kp, qv) ==
    {n \in 0..M.grid.trips :
        \A i \in DOMAIN M.E :
            (M.E[i].route_id = kp[1] /\ M.E[i].mode = kp[2]) =>
                /\ qv <= n * M.E[i].capacity_per_trip
                /\ (M.variant = "advanced" /\ M.E[i].sbq = 0)
                       \/ qv >= n * M.E[i].sbq}

Holds(lhs, rel, rhs) ==
    CASE rel = ">=" -> lhs >= rhs
      [] rel = "<=" -> lhs <= rhs
      [] OTHER -> lhs = rhs

(* the strategic constraints of period t on the quantities qt of t *)
StrategicOK(M, t, qt) ==
    \A name \in DOMAIN M.strategic.byName :
        LET c == M.strategic.byName[name]
        IN  c.vars[1][3] = t =>
                Holds(SumSeq([i \in DOMAIN c.vars |->
                                 qt[<<c.vars[i][1], c.vars[i][2]>>]]),
                      c.rel, c.value)

(* quantities of one period that leave a Trips value and meet the rows *)
QChoices(M, t) ==
    {qt \in [KeyPairs(M.E) -> QDomain(M)] :
        /\ \A kp \in KeyPairs(M.E) : TripsChoices(M, kp, qt[kp]) # {}
        /\ StrategicOK(M, t, qt)}

(* the choices of a plant without the production cap *)
PlantChoicesNoMaxProd(M, p, t, prev_inv, qt) ==
    LET ship == shipped_expr(M.E, qt, p.id)
        inbound == received_expr(M.E, qt, p.id)
        dem == demand_of(M.req, p.id, t)
        hi == p.max_capacity + ship + dem
        grid == {x \in 0..hi : x % M.grid.unit = 0}
        ProdDom == IF p.type = "IU" THEN grid ELSE {0}
        EmDom == IF M.emergency THEN grid ELSE {0}
        all == {[prod |-> x, em |-> e,
                 inv |-> InvBal(prev_inv, x, inbound + e, ship, dem)] :
                    x \in ProdDom, e \in EmDom}
    IN  {c \in all :
            /\ c.inv >= 0
            /\ c.inv >= p.safety_stock
            /\ c.inv <= p.max_capacity}

(* the choices of a plant without the safety stock and capacity bounds *)
PlantChoicesUnbounded(M, p, t, prev_inv, qt) ==
    LET ship == shipped_expr(M.E, qt, p.id)
        inbound == received_expr(M.E, qt, p.id)
        dem == demand_of(M.req, p.id, t)
        hi == p.max_capacity + ship + dem
        grid == {x \in 0..hi : x % M.grid.unit = 0}
        ProdDom == IF p.type = "IU" THEN grid ELSE {0}
        EmDom == IF M.emergency THEN grid ELSE {0}
        all == {[prod |-> x, em |-> e,
                 inv |-> InvBal(prev_inv, x, inbound + e, ship, dem)] :
                    x \in ProdDom, e \in EmDom}
    IN  {c \in all :
            /\ c.inv >= 0
            /\ (p.type = "IU" /\ p.max_production_per_period # None)
                   => c.prod <= p.max_production_per_period}

(* production, emergency inflow and ending inventory of plant p in period  *)
(* t: Inv >= 0, the production cap, the balance, safety stock and maximum  *)
(* capacity.  Production and emergency inflow are searched up to           *)
(* max_capacity + shipped + demand, which the balance and Inv <=           *)
(* max_capacity imply.                                                     *)
PlantChoices(M, p, t, prev_inv, qt) ==
    LET ship == shipped_expr(M.E, qt, p.id)
        inbound == received_expr(M.E, qt, p.id)
        dem == demand_of(M.req, p.id, t)
        hi == p.max_capacity + ship + dem
        grid == {x \in 0..hi : x % M.grid.unit = 0}
        ProdDom == IF p.type = "IU" THEN grid ELSE {0}
        EmDom == IF M.emergency THEN grid ELSE {0}
        all == {[prod |-> x, em |-> e,
                 inv |-> InvBal(prev_inv, x, inbound + e, ship, dem)] :
                    x \in ProdDom, e \in EmDom}
    IN  {c \in all :
            /\ c.inv >= 0
            /\ (p.type = "IU" /\ p.max_production_per_period # None)
                   => c.prod <= p.max_production_per_period
            /\ c.inv >= p.safety_stock
            /\ c.inv <= p.max_capacity}

RECURSIVE PlantProduct(_, _, _, _, _)
PlantProduct(M, t, prev, qt, i) ==
    IF i = 0 THEN {<<>>}
    ELSE {Append(s, c) : s \in PlantProduct(M, t, prev, qt, i - 1),
                         c \in PlantChoices(M, M.req.plants[i], t, prev[i], qt)}

(* the feasible decisions of period t after the inventories prev *)
Decisions(M, t, prev) ==
    UNION {{[q |-> qt, pl |-> s] :
               s \in PlantProduct(M, t, prev, qt, Len(M.req.plants))} :
           qt \in QChoices(M, t)}

InvAfter(d) == [i \in DOMAIN d.pl |-> d.pl[i].inv]

(* "p.holding_cost or 0.0", "p.production_cost or 0.0" *)
OrZero(x) == IF x = None THEN 0 ELSE x

(* the objective terms of one period *)
production_cost_of(M, d) ==
    SumSeq([i \in DOMAIN d.pl |->
               IF M.req.plants[i].type = "IU"
               THEN OrZero(M.req.plants[i].production_cost) * d.pl[i].prod
               ELSE 0])

transport_cost_of(M, d) ==
    SumSeq([i \in DOMAIN M.E |->
               M.E[i].unit_cost * d.q[<<M.E[i].route_id, M.E[i].mode>>]])

holding_cost_of(M, d) ==
    SumSeq([i \in DOMAIN d.pl |->
               OrZero(M.req.plants[i].holding_cost) * d.pl[i].inv])

emergency_cost_of(M, d) ==
    IF M.emergency
    THEN SumSeq([i \in DOMAIN d.pl |-> emergency_unit_cost * d.pl[i].em])
    ELSE 0

DecisionCost(M, d) ==
    production_cost_of(M, d) + holding_cost_of(M, d)
    + transport_cost_of(M, d) + emergency_cost_of(M, d)

(* The minimum-cost continuations from period t on: their cost and the     *)
(* set of them (empty when the model has no feasible point from there)     *)
RECURSIVE OptFrom(_, _, _)
OptFrom(M, t, prev) ==
    IF t > M.req.T THEN [cost |-> 0, plans |-> {<<>>}]
    ELSE
      LET D == Decisions(M, t, prev)
          table == {<<iv, OptFrom(M, t + 1, iv)>> : iv \in {InvAfter(d) : d \in D}}
          Rest(d) == (CHOOSE e \in table : e[1] = InvAfter(d))[2]
          feas == {d \in D : Rest(d).plans # {}}
          Total(d) == DecisionCost(M, d) + Rest(d).cost
      IN  IF feas = {} THEN [cost |-> 0, plans |-> {}]
          ELSE LET best == MinOf({Total(d) : d \in feas})
               IN  [cost |-> best,
                    plans |-> UNION {{<<d>> \o r : r \in Rest(d).plans} :
                                     d \in {x \in feas : Total(x) = best}}]

initial_inventories(r) == [i \in DOMAIN r.plants |-> r.plants[i].initial_inventory]

Optimum(M) == OptFrom(M, 1, initial_inventories(M.req))

----------------------------------------------------------------------------
(* The backend's answer and the plan extracted from it *)

(* pulp.LpStatus: the names of the termination codes model.status takes *)
LpStatus ==
    (0 :> "Not Solved") @@ (1 :> "Optimal") @@ (-1 :> "Infeasible")
    @@ (-2 :> "Unbounded") @@ (-3 :> "Undefined")

(* pulp.LpStatus.get(model.status, "Not Solved") *)
LpStatusGet(code) ==
    IF code \in DOMAIN LpStatus THEN LpStatus[code] ELSE "Not Solved"

(* The codes the backend may end with: Optimal only with a minimum-cost    *)
(* point, Infeasible only for a model without a feasible point; not        *)
(* solved, unbounded and undefined are the backend's to report (time       *)
(* limit, numerical trouble, an unrecognised solver answer).               *)
BackendCodes(feasible) ==
    IF feasible THEN {1, 0, -2, -3} ELSE {-1, 0, -2, -3}

PlantIndex(r, id) == CHOOSE i \in DOMAIN r.plants : r.plants[i].id = id

NoVals == [q |-> <<>>, trips |-> <<>>, prod |-> <<>>, inv |-> <<>>,
           em |-> <<>>, emergency |-> FALSE]

(* the values of the variables at a plan with its trip counts *)
PlanVals(M, plan, tr) ==
    LET r == M.req
        PT == PlantIds(r) \X (1..r.T)
    IN  [q |-> [k \in Keys(M.E, r.T) |-> plan[k[3]].q[<<k[1], k[2]>>]],
         trips |-> tr,
         prod |-> [x \in PT |-> plan[x[2]].pl[PlantIndex(r, x[1])].prod],
         inv |-> [x \in PT |-> plan[x[2]].pl[PlantIndex(r, x[1])].inv],
         em |-> [x \in PT |-> plan[x[2]].pl[PlantIndex(r, x[1])].em],
         emergency |-> M.emergency]

(* The integer Trips values the backend may return with a plan.  Trips has *)
(* no cost, so any value the two link constraints leave is optimal; the   *)
(* model takes the least value on every key but at most one.              *)
TripsFor(M, plan) ==
    LET K == Keys(M.E, M.req.T)
        Choices(k) == TripsChoices(M, <<k[1], k[2]>>, plan[k[3]].q[<<k[1], k[2]>>])
        least == [k \in K |-> MinOf(Choices(k))]
    IN  {least} \cup UNION {{[least EXCEPT ![k0] = n] : n \in Choices(k0)} :
                             k0 \in K}

(* pulp.value(model.objective) *)
RECURSIVE ObjectiveValue(_, _)
ObjectiveValue(M, plan) ==
    IF plan = <<>> THEN 0
    ELSE DecisionCost(M, Head(plan)) + ObjectiveValue(M, Tail(plan))

(* sort key (s.period, s.route_id, s.mode) *)
KeyLess(a, b) ==
    \/ a[3] < b[3]
    \/ a[3] = b[3] /\ StrRank(a[1]) < StrRank(b[1])
    \/ a[3] = b[3] /\ a[1] = b[1] /\ StrRank(a[2]) < StrRank(b[2])

RECURSIVE SortKeys(_)
SortKeys(S) ==
    IF S = {} THEN <<>>
    ELSE LET k == CHOOSE x \in S : \A y \in S \ {x} : KeyLess(x, y)
         IN  <<k>> \o SortKeys(S \ {k})

Max0(x) == IF x < 0 THEN 0 ELSE x

(* a schedule that keeps only the keys with a quantity *)
ExtractScheduleQtyOnly(r, E, q, tr) ==
    LET kept == {k \in Keys(E, r.T) : q[k] > 0}
        sorted == SortKeys(kept)
    IN  [i \in DOMAIN sorted |->
            LET k == sorted[i]
                rt == route_by_id(r.routes, k[1])
            IN  [period |-> k[3], route_id |-> k[1],
                 origin_id |-> rt.origin_id,
                 destination_id |-> rt.destination_id,
                 mode |-> k[2], num_trips |-> Max0(tr[k]),
                 quantity_shipped |-> Max0(q[k])]]

(* the trip schedule: a record per key unless trips <= 0 and quantity is   *)
(* (about) 0, sorted                                                       *)
ExtractSchedule(r, E, q, tr) ==
    LET kept == {k \in Keys(E, r.T) : ~(tr[k] <= 0 /\ q[k] <= 0)}
        sorted == SortKeys(kept)
    IN  [i \in DOMAIN sorted |->
            LET k == sorted[i]
                rt == route_by_id(r.routes, k[1])
            IN  [period |-> k[3], route_id |-> k[1],
                 origin_id |-> rt.origin_id,
                 destination_id |-> rt.destination_id,
                 mode |-> k[2], num_trips |-> Max0(tr[k]),
                 quantity_shipped |-> Max0(q[k])]]

SolveResult(status, total_cost, scheduled_trips, message) ==
    [status |-> status, total_cost |-> total_cost,
     scheduled_trips |-> scheduled_trips, message |-> message]

NoResult == SolveResult("", None, <<>>, NoneStr)

(* "except Exception as exc: return ...(status="Error", ...)" *)
ErrorResult(variant) ==
    SolveResult("Error", None, <<>>,
                IF variant = "advanced" THEN "Solver error: exc" ELSE "exc")

(* a non-optimal return that keeps a cost *)
NonOptimalKeepsCost(variant, status) ==
    SolveResult(status, 0, <<>>, NoneStr)

(* "if pulp_status != "Optimal": return ..." *)
NonOptimalResult(variant, status) ==
    SolveResult(status, None, <<>>,
                IF variant = "advanced" THEN "No optimal solution found"
                ELSE NoneStr)

OptimalResult(variant, total_cost, schedule) ==
    SolveResult("Optimal", total_cost, schedule,
                IF variant = "advanced" THEN "Solution found successfully"
                ELSE NoneStr)

(* The cost breakdown of the diagnostics: the terms of                      *)
(* production_cost_expr, transport_freight_expr + transport_handling_expr   *)
(* and holding_cost_expr evaluated on the solved values v                   *)
prod_cost(r, v) ==
    SumSeq([i \in DOMAIN r.plants |->
               IF r.plants[i].type = "IU"
               THEN SumSeq([t \in 1..r.T |->
                               OrZero(r.plants[i].production_cost)
                                   * v.prod[<<r.plants[i].id, t>>]])
               ELSE 0])

(* getattr(mode, 'handling_cost', 0.0): RouteMode has no such field *)
handling_cost == 0

trans_cost(r, E, v) ==
    SumSeq([i \in DOMAIN E |->
               SumSeq([t \in 1..r.T |-> E[i].unit_cost * v.q[KeyOf(E[i], t)]])])
    + SumSeq([i \in DOMAIN E |->
                 SumSeq([t \in 1..r.T |-> handling_cost * v.q[KeyOf(E[i], t)]])])

(* a holding cost summed over the producers only *)
hold_cost_producers_only(r, v) ==
    SumSeq([i \in DOMAIN r.plants |->
               IF r.plants[i].type = "IU"
               THEN SumSeq([t \in 1..r.T |->
                               OrZero(r.plants[i].holding_cost)
                                   * v.inv[<<r.plants[i].id, t>>]])
               ELSE 0])

hold_cost(r, v) ==
    SumSeq([i \in DOMAIN r.plants |->
               SumSeq([t \in 1..r.T |->
                          OrZero(r.plants[i].holding_cost)
                              * v.inv[<<r.plants[i].id, t>>]])])

(* the diagnostics fields of EnhancedSolveResult, None by default *)
NoDiagnostics ==
    [production_cost |-> None, transport_cost |-> None, holding_cost |-> None]

diagnostics(enable_diagnostics, r, E, v) ==
    IF enable_diagnostics
    THEN [production_cost |-> prod_cost(r, v),
          transport_cost |-> trans_cost(r, E, v),
          holding_cost |-> hold_cost(r, v)]
    ELSE NoDiagnostics

(* EnhancedSolveResult: the result of the advanced solver carries the      *)
(* diagnostics fields                                                      *)
EnhancedSolveResult(variant, res, diag) ==
    IF variant = "advanced"
    THEN [status |-> res.status, total_cost |-> res.total_cost,
          scheduled_trips |-> res.scheduled_trips, message |-> res.message,
          production_cost |-> diag.production_cost,
          transport_cost |-> diag.transport_cost,
          holding_cost |-> diag.holding_cost]
    ELSE res

(* Every way a call of the solver may end: the build raising PulpError,    *)
(* the backend raising, a termination code other than Optimal, or Optimal  *)
(* with one of the minimum-cost points.                                    *)
SolveOutcomes(variant, r, rs, em) ==
    LET M == BuildModel(variant, r, rs, em)
        opt == Optimum(M)
        codes == BackendCodes(opt.plans # {})
    IN  IF M.raised
        THEN {[raised |-> TRUE, exception |-> FALSE, code |-> 0,
               result |-> NoResult, vals |-> NoVals]}
        ELSE {[raised |-> FALSE, exception |-> TRUE, code |-> 0,
               result |-> EnhancedSolveResult(variant, ErrorResult(variant),
                                              NoDiagnostics),
               vals |-> NoVals]}
             \cup
             {[raised |-> FALSE, exception |-> FALSE, code |-> c,
               result |-> EnhancedSolveResult(variant,
                              NonOptimalResult(variant, LpStatusGet(c)),
                              NoDiagnostics),
               vals |-> NoVals] : c \in {x \in codes : LpStatusGet(x) # "Optimal"}}
             \cup
             UNION {{[raised |-> FALSE, exception |-> FALSE, code |-> 1,
                      result |->
                          LET v == PlanVals(M, plan, tr[1])
                          IN  EnhancedSolveResult(variant,
                                  OptimalResult(variant, ObjectiveValue(M, plan),
                                      ExtractSchedule(r, M.E, v.q, v.trips)),
                                  diagnostics(tr[2], r, M.E, v)),
                      vals |-> PlanVals(M, plan, tr[1])] :
                        tr \in TripsFor(M, plan)
                               \X (IF variant = "advanced" THEN BOOLEAN
                                   ELSE {FALSE})} :
                    plan \in IF 1 \in codes THEN opt.plans ELSE {}}

----------------------------------------------------------------------------
(* Request validation (pydantic) *)

PlantFieldsOK(p) ==
    /\ p.id # ""
    /\ p.type \in {"IU", "GU"}
    /\ p.initial_inventory >= 0
    /\ p.max_capacity > 0
    /\ p.safety_stock >= 0
    /\ p.holding_cost = None \/ p.holding_cost >= 0
    /\ p.production_cost = None \/ p.production_cost >= 0
    /\ p.max_production_per_period = None \/ p.max_production_per_period > 0
    /\ p.safety_stock <= p.max_capacity
    /\ p.initial_inventory <= p.max_capacity

RouteFieldsOK(rt) ==
    /\ rt.id # "" /\ rt.origin_id # "" /\ rt.destination_id # ""
    /\ rt.minimum_shipment_batch_quantity >= 0
    /\ Len(rt.modes) >= 1
    /\ \A j \in DOMAIN rt.modes :
           /\ rt.modes[j].mode # ""
           /\ rt.modes[j].unit_cost >= 0
           /\ rt.modes[j].capacity_per_trip > 0

DemandOK(r) ==
    \A id \in DOMAIN r.demand :
        /\ id \in PlantIds(r)
        /\ Len(r.demand[id]) = r.T
        /\ \A t \in DOMAIN r.demand[id] : r.demand[id][t] >= 0

TopologyOK(r) ==
    /\ Cardinality(PlantIds(r)) = Len(r.plants)
    /\ \A i \in DOMAIN r.routes :
           /\ r.routes[i].origin_id \in PlantIds(r)
           /\ r.routes[i].destination_id \in PlantIds(r)
           /\ r.routes[i].origin_id # r.routes[i].destination_id

(* app/schemas.py OptimizationRequest._validate_network *)
validate_network(r) ==
    /\ r.T >= 1 /\ r.T <= 52 /\ Len(r.plants) >= 1
    /\ \A i \in DOMAIN r.plants :
           PlantFieldsOK(r.plants[i])
           /\ r.plants[i].holding_cost # None /\ r.plants[i].production_cost # None
    /\ \A i \in DOMAIN r.routes : RouteFieldsOK(r.routes[i])
    /\ DemandOK(r)
    /\ TopologyOK(r)
    /\ \A i \in DOMAIN r.routes :
           r.plants[PlantIndex(r, r.routes[i].origin_id)].type = "IU"

(* solver_logic.py OptimizationRequest._validate_topology *)
validate_topology(r) ==
    /\ r.T >= 1 /\ r.T <= 52 /\ Len(r.plants) >= 1
    /\ \A i \in DOMAIN r.plants :
           PlantFieldsOK(r.plants[i])
           /\ (r.plants[i].type = "GU"
                   => r.plants[i].max_production_per_period = None)
    /\ \A i \in DOMAIN r.routes : RouteFieldsOK(r.routes[i])
    /\ TopologyOK(r)
    /\ DemandOK(r)

----------------------------------------------------------------------------
(* The requests and rows of the model *)

Plant(id, type, cap, safety, maxprod) ==
    [id |-> id, type |-> type, initial_inventory |-> 0, max_capacity |-> cap,
     safety_stock |-> safety, holding_cost |-> 1,
     production_cost |-> IF type = "IU" THEN 1 ELSE 0,
     max_production_per_period |-> maxprod]

Mode(mode, unit_cost, cap) ==
    [mode |-> mode, unit_cost |-> unit_cost, capacity_per_trip |-> cap]

Route(id, origin, dest, sbq, modes) ==
    [id |-> id, origin_id |-> origin, destination_id |-> dest,
     minimum_shipment_batch_quantity |-> sbq, modes |-> modes]

PlantLists ==
    {<<Plant("P1", "IU", 2, 0, mp), Plant("C1", "GU", cap, ss, None)>> :
        mp \in {None, 1}, cap \in {1, 2}, ss \in {0, 1}}

RouteLists ==
    { <<>>,
      <<Route("R1", "P1", "C1", 0, <<Mode("road", 1, 1)>>)>>,
      <<Route("R1", "P1", "C1", 2, <<Mode("rail", 1, 2)>>)>>,
      <<Route("R1", "P1", "C1", 0, <<Mode("road", 2, 1), Mode("rail", 1, 2)>>)>>,
      <<Route("R1", "P1", "C1", 0, <<Mode("road", 1, 1)>>),
        Route("R1", "P1", "C1", 0, <<Mode("road", 1, 2)>>)>>,
      <<Route("R1", "P1", "C1", 0, <<Mode("road", 1, 1)>>),
        Route("R2", "C1", "P1", 0, <<Mode("road", 1, 1)>>)>> }

(* demand dictionaries: none given, or a series for the consumer *)
Demands(T) ==
    {<<>>} \cup {("C1" :> [t \in 1..T |-> d]) : d \in {1, 2}}
           \cup {("C1" :> [t \in 1..T |-> IF t = T THEN 2 ELSE 0])}

Requests ==
    UNION {{[T |-> T, plants |-> ps, routes |-> rts, demand |-> dm] :
               ps \in PlantLists, rts \in RouteLists, dm \in Demands(T)} :
           T \in 1..MaxT}

RawRow(iu, mode, dst, t, bound, value) ==
    [iu_code |-> iu, transport_code |-> mode, iugu_code |-> dst,
     time_period |-> t, bound_type |-> bound, value |-> value]

(* the rows handed to a solve *)
SolveRows ==
    { <<>>,
      <<trim_codes(RawRow("P1", NoneStr, NoneStr, 1, "U", 1))>>,
      <<trim_codes(RawRow("P1", "ROAD", "C1", 1, "G", 1))>> }

Solvers == {"solve_clinker_transport", "solve_clinker_transport_advanced",
            "solve_supply_chain"}

VariantOf(e) ==
    CASE e = "solve_clinker_transport" -> "basic"
      [] e = "solve_clinker_transport_advanced" -> "advanced"
      [] OTHER -> "supply"

Accepted(e, r) ==
    IF VariantOf(e) = "supply" THEN validate_topology(r) ELSE validate_network(r)

NoResponse == [built |-> FALSE, status |-> "", total_cost |-> None,
               scheduled_trips |-> <<>>, message |-> NoneStr]

PublicStatuses == {"Optimal", "Infeasible", "Unbounded", "Not Solved", "Error"}

----------------------------------------------------------------------------
(* The solvers and the fallback orchestrator as a state machine *)

InitCommon ==
    /\ pc = "call"
    /\ idx = 0
    /\ cons = NoConstraints
    /\ qtyIndex = {}
    /\ vals = NoVals
    /\ base = NoResult
    /\ fallback = NoResult
    /\ solves = <<>>
    /\ result = NoResult
    /\ response = NoResponse
    /\ store = NoStore
    /\ returned = <<>>

Init ==
    /\ entry \in Solvers \cup {"solve_with_emergency_fallback"}
    /\ req \in {r \in Requests : Accepted(entry, r)}
    /\ rows \in IF VariantOf(entry) = "supply" THEN {<<>>} ELSE SolveRows
    /\ emergency \in IF entry = "solve_supply_chain" THEN BOOLEAN ELSE {FALSE}
    /\ InitCommon

(* a direct call of one of the three solvers, to its return *)
Solve(e) ==
    /\ pc = "call"
    /\ entry = e
    /\ \E o \in SolveOutcomes(VariantOf(e), req, rows, emergency) :
          /\ pc' = IF o.raised THEN "raised" ELSE "returned"
          /\ result' = o.result
          /\ vals' = o.vals
          /\ solves' = IF o.raised THEN solves
                       ELSE Append(solves, <<emergency, o.result.status>>)
    /\ UNCHANGED <<store, returned>>
    /\ UNCHANGED <<entry, req, rows, emergency, idx, cons, qtyIndex, base,
                   fallback, response>>

solve_clinker_transport == Solve("solve_clinker_transport")

solve_clinker_transport_advanced == Solve("solve_clinker_transport_advanced")

solve_supply_chain == Solve("solve_supply_chain")

(* base = solve_supply_chain(req, enable_emergency_sourcing=False) *)
FallbackBaseSolve ==
    /\ pc = "call"
    /\ entry = "solve_with_emergency_fallback"
    /\ \E o \in SolveOutcomes("supply", req, <<>>, FALSE) :
          /\ pc' = IF o.raised THEN "raised" ELSE "base_solved"
          /\ base' = o.result
          /\ vals' = o.vals
          /\ solves' = IF o.raised THEN solves
                       ELSE Append(solves, <<FALSE, o.result.status>>)
    /\ UNCHANGED <<store, returned>>
    /\ UNCHANGED <<entry, req, rows, emergency, idx, cons, qtyIndex, fallback,
                   result, response>>

(* "if base.status == "Optimal": return base" and                          *)
(* "if base.status != "Infeasible": return base"                           *)
FallbackReturnBase ==
    /\ pc = "base_solved"
    /\ base.status = "Optimal" \/ base.status # "Infeasible"
    /\ result' = base
    /\ pc' = "returned"
    /\ UNCHANGED <<store, returned>>
    /\ UNCHANGED <<entry, req, rows, emergency, idx, cons, qtyIndex, vals, base,
                   fallback, solves, response>>

(* a re-solve after any base result that is not Optimal *)
FallbackResolveAnyStatus ==
    /\ pc = "base_solved"
    /\ base.status # "Optimal"
    /\ \E o \in SolveOutcomes("supply", req, <<>>, TRUE) :
          /\ pc' = IF o.raised THEN "raised" ELSE "fallback_solved"
          /\ fallback' = o.result
          /\ vals' = o.vals
          /\ solves' = IF o.raised THEN solves
                       ELSE Append(solves, <<TRUE, o.result.status>>)
    /\ UNCHANGED <<store, returned>>
    /\ UNCHANGED <<entry, req, rows, emergency, idx, cons, qtyIndex, base,
                   result, response>>

(* fallback = solve_supply_chain(req, enable_emergency_sourcing=True) *)
FallbackResolve ==
    /\ pc = "base_solved"
    /\ base.status # "Optimal"
    /\ base.status = "Infeasible"
    /\ \E o \in SolveOutcomes("supply", req, <<>>, TRUE) :
          /\ pc' = IF o.raised THEN "raised" ELSE "fallback_solved"
          /\ fallback' = o.result
          /\ vals' = o.vals
          /\ solves' = IF o.raised THEN solves
                       ELSE Append(solves, <<TRUE, o.result.status>>)
    /\ UNCHANGED <<store, returned>>
    /\ UNCHANGED <<entry, req, rows, emergency, idx, cons, qtyIndex, base,
                   result, response>>

(* a return that reports the base status when the re-solve is not Optimal *)
FallbackReturnBaseStatus ==
    /\ pc = "fallback_solved"
    /\ result' =
          IF fallback.status = "Optimal"
          THEN SolveResult("Optimal", fallback.total_cost,
                           fallback.scheduled_trips,
                           "Base model infeasible; used high-cost emergency sourcing to produce a feasible plan.")
          ELSE SolveResult(base.status, fallback.total_cost,
                           fallback.scheduled_trips,
                           "Base model infeasible and emergency fallback did not solve.")
    /\ pc' = "returned"
    /\ UNCHANGED <<store, returned>>
    /\ UNCHANGED <<entry, req, rows, emergency, idx, cons, qtyIndex, vals, base,
                   fallback, solves, response>>

(* the two returns after the emergency-enabled solve *)
FallbackReturn ==
    /\ pc = "fallback_solved"
    /\ result' =
          IF fallback.status = "Optimal"
          THEN SolveResult("Optimal", fallback.total_cost,
                           fallback.scheduled_trips,
                           "Base model infeasible; used high-cost emergency sourcing to produce a feasible plan.")
          ELSE SolveResult(fallback.status, fallback.total_cost,
                           fallback.scheduled_trips,
                           "Base model infeasible and emergency fallback did not solve.")
    /\ pc' = "returned"
    /\ UNCHANGED <<store, returned>>
    /\ UNCHANGED <<entry, req, rows, emergency, idx, cons, qtyIndex, vals, base,
                   fallback, solves, response>>

(* OptimizationResponse(status=..., ...): the status must be one of the    *)
(* Literal's values, or pydantic raises                                    *)
OptimizationResponse(status, r) ==
    IF status \in PublicStatuses
    THEN [built |-> TRUE, status |-> status, total_cost |-> r.total_cost,
          scheduled_trips |-> r.scheduled_trips, message |-> r.message]
    ELSE NoResponse

(* POST /optimize of app/main.py: the response built from the result as is *)
optimize_app ==
    /\ pc = "returned"
    /\ entry = "solve_clinker_transport"
    /\ response' = OptimizationResponse(result.status, result)
    /\ pc' = IF response'.built THEN "responded" ELSE "raised"
    /\ UNCHANGED <<store, returned>>
    /\ UNCHANGED <<entry, req, rows, emergency, idx, cons, qtyIndex, vals, base,
                   fallback, solves, result>>

(* POST /optimize of backend/main.py: the status normalised first *)
optimize_backend ==
    /\ pc = "returned"
    /\ entry = "solve_with_emergency_fallback"
    /\ response' = OptimizationResponse(
                       IF result.status \notin PublicStatuses
                       THEN "Not Solved" ELSE result.status, result)
    /\ pc' = IF response'.built THEN "responded" ELSE "raised"
    /\ UNCHANGED <<store, returned>>
    /\ UNCHANGED <<entry, req, rows, emergency, idx, cons, qtyIndex, vals, base,
                   fallback, solves, result>>

Next ==
    \/ solve_clinker_transport
    \/ solve_clinker_transport_advanced
    \/ solve_supply_chain
    \/ FallbackBaseSolve
    \/ FallbackReturnBase
    \/ FallbackResolve
    \/ FallbackReturn
    \/ optimize_app
    \/ optimize_backend

Spec == Init /\ [][Next]_vars

----------------------------------------------------------------------------
(* Request construction: the payload is validated before any solver sees   *)
(* it, and the scenarios S2, S3 and S5 of the specification are among the  *)
(* payloads                                                                *)

(* the value of a cost field the payload leaves out: 0.0 in app/schemas.py *)
(* Plant, None in solver_logic.py Plant                                    *)
DefaultCost(variant) == IF variant = "supply" THEN None ELSE 0

PlantRec(id, type, cap, safety, hold, cost, maxprod) ==
    [id |-> id, type |-> type, initial_inventory |-> 0, max_capacity |-> cap,
     safety_stock |-> safety, holding_cost |-> hold,
     production_cost |-> cost, max_production_per_period |-> maxprod]

(* the plants P1 and C1 of S1 with the production cap and the consumer's   *)
(* capacity as given                                                       *)
ScenarioPlants(variant, max_prod, dest_cap) ==
    <<PlantRec("P1", "IU", 100, 0, DefaultCost(variant), 10, max_prod),
      PlantRec("C1", "GU", dest_cap, 0, 1, DefaultCost(variant), None)>>

ScenarioRoute(sbq) == <<Route("R1", "P1", "C1", sbq, <<Mode("road", 2, 10)>>)>>

(* S2: forced inventory carry *)
S2Request(variant) ==
    [T |-> 2, plants |-> ScenarioPlants(variant, 30, 100),
     routes |-> ScenarioRoute(0), demand |-> ("C1" :> <<20, 40>>)]

(* the capacities of the consumer S3 is run with *)
S3Capacities == {4, 5, 10, 20}

(* S3: SBQ forbids half-loads *)
S3Request(variant, dest_cap) ==
    [T |-> 1, plants |-> ScenarioPlants(variant, 50, dest_cap),
     routes |-> ScenarioRoute(10), demand |-> ("C1" :> <<15>>)]

(* S5: a producer that cannot produce *)
S5Request(variant) ==
    [T |-> 1, plants |-> ScenarioPlants(variant, 0, 100),
     routes |-> ScenarioRoute(0), demand |-> ("C1" :> <<10>>)]

(* payloads with a flaw in the network *)
FlawedRequests ==
    LET P1 == Plant("P1", "IU", 2, 0, None)
        C1 == Plant("C1", "GU", 2, 0, None)
        road == <<Mode("road", 1, 1)>>
        Req(ps, rts) == [T |-> 1, plants |-> ps, routes |-> rts, demand |-> <<>>]
    IN  { Req(<<P1, Plant("P1", "GU", 2, 0, None)>>, <<>>),
          Req(<<P1, C1, C1>>, <<Route("R1", "P1", "C1", 0, road)>>),
          Req(<<P1, C1>>, <<Route("R1", "P1", "C2", 0, road)>>),
          Req(<<P1, C1>>, <<Route("R1", "P2", "C1", 0, road)>>),
          Req(<<P1, C1>>, <<Route("R1", "C1", "P1", 0, road)>>),
          Req(<<P1, C1>>, <<Route("R1", "P1", "P1", 0, road)>>),
          Req(<<P1, C1>>, <<Route("R1", "C1", "C1", 0, road)>>),
          Req(<<P1, C1>>, <<Route("R1", "P1", "C1", 0,
                                  <<Mode("road", 1, 1), Mode("road", 2, 2)>>)>>) }

(* the calls of the model: the entry point, the payload, the rows and the  *)
(* enable_emergency_sourcing flag                                          *)
Call(e, r, rs, em) == [entry |-> e, req |-> r, rows |-> rs, emergency |-> em]

AllEntries == Solvers \cup {"solve_with_emergency_fallback"}

GeneralCalls ==
    UNION {{Call(e, r, rs, em) :
               r \in Requests \cup FlawedRequests,
               rs \in IF VariantOf(e) = "supply" THEN {<<>>} ELSE SolveRows,
               em \in IF e = "solve_supply_chain" THEN BOOLEAN ELSE {FALSE}} :
           e \in AllEntries}

ScenarioCalls ==
    UNION {{Call(e, S2Request(VariantOf(e)), <<>>, FALSE)}
           \cup {Call(e, S3Request(VariantOf(e), c), <<>>, FALSE) :
                    c \in S3Capacities} :
           e \in Solvers}
    \cup {Call(e, S5Request("supply"), <<>>, FALSE) :
             e \in {"solve_supply_chain", "solve_with_emergency_fallback"}}

InitValidated ==
    /\ \E c \in GeneralCalls \cup ScenarioCalls :
           /\ entry = c.entry
           /\ req = c.req
           /\ rows = c.rows
           /\ emergency = c.emergency
    /\ pc = "validate"
    /\ idx = 0
    /\ cons = NoConstraints
    /\ qtyIndex = {}
    /\ vals = NoVals
    /\ base = NoResult
    /\ fallback = NoResult
    /\ solves = <<>>
    /\ result = NoResult
    /\ response = NoResponse
    /\ store = NoStore
    /\ returned = <<>>

(* Constructing OptimizationRequest runs the validators; a ValidationError *)
(* leaves no request object                                                *)
Validate ==
    /\ pc = "validate"
    /\ pc' = IF Accepted(entry, req) THEN "call" ELSE "rejected"
    /\ UNCHANGED <<store, returned>>
    /\ UNCHANGED <<entry, req, rows, emergency, idx, cons, qtyIndex, vals, base,
                   fallback, solves, result, response>>

NextValidated ==
    \/ Validate
    \/ Next

SpecValidated == InitValidated /\ [][NextValidated]_vars

----------------------------------------------------------------------------
(* The Pyomo applicator apply_strategic_constraints over model.qty, whose  *)
(* index set Q holds the tuples (iu, dst, mode, t)                         *)

mode_fallback == {"t1", "t2"}

dest_by_iu(Q, iu) == {k[2] : k \in {x \in Q : x[1] = iu}}

modes_by_iu(Q, iu) == {k[3] : k \in {x \in Q : x[1] = iu}}

periods(Q) == {k[4] : k \in Q}

(* bound_map: L (>=), U (<=), E (=), G (>=) *)
bound_map(bound_type) ==
    CASE bound_type = "L" -> ">="
      [] bound_type = "U" -> "<="
      [] bound_type = "E" -> "=="
      [] bound_type = "G" -> ">="
      [] OTHER -> "none"

(* cname = f"strat_con_{idx}" *)
strat_cname(i) == <<"strat_con", i>>

(* model.add_component(cname, Constraint(expr=op(expr, row.value))).  ks   *)
(* are the indices summed (the order of a sum over a set is immaterial).   *)
(* With no index, expr is the number 0 and op(expr, value) a Python bool:  *)
(* Pyomo raises ValueError for it when the component is constructed, or    *)
(* holds the component without a body on a model not yet constructed.      *)
add_component(m, name, ks, rel, value) ==
    IF ks = {}
    THEN {[m EXCEPT !.error = TRUE],
          AddConstraint(m, name, [vars |-> <<>>, rel |-> rel, value |-> value])}
    ELSE {AddConstraint(m, name,
              [vars |-> SetToSeq(ks), rel |-> rel, value |-> value])}

(* One iteration of the loop over constraints_list: the models it may      *)
(* leave.  list(mode_set)[0] is any element of mode_set.                   *)
apply_strategic_row(m, Q, row, i) ==
    LET iu == row.iu_code
        t == row.time_period
        bound_type == Upper(Strip(row.bound_type))
        mode_code == IF Truthy(row.transport_code)
                     THEN Lower(Strip(row.transport_code)) ELSE NoneStr
        dst_code == IF Truthy(row.iugu_code)
                    THEN Strip(row.iugu_code) ELSE NoneStr
        mode_set == IF Truthy(mode_code) THEN {mode_code}
                    ELSE IF modes_by_iu(Q, iu) # {} THEN modes_by_iu(Q, iu)
                    ELSE mode_fallback
        dest_set == IF Truthy(dst_code) THEN {dst_code} ELSE dest_by_iu(Q, iu)
    IN  IF dest_by_iu(Q, iu) = {} \/ t \notin periods(Q) THEN {m}
        ELSE IF bound_map(bound_type) = "none" THEN {m}
        ELSE IF mode_set = {} THEN {m}
        ELSE IF dest_set = {} THEN {m}
        ELSE IF mode_code = NoneStr /\ dst_code = NoneStr
        THEN add_component(m, strat_cname(i),
                 {k \in Q : k[1] = iu /\ k[2] \in dest_set
                            /\ k[3] \in mode_set /\ k[4] = t},
                 bound_map(bound_type), row.value)
        ELSE IF mode_code # NoneStr /\ dst_code = NoneStr
        THEN UNION {add_component(m, strat_cname(i),
                        {k \in Q : k[1] = iu /\ k[2] \in dest_set
                                   /\ k[3] = m0 /\ k[4] = t},
                        bound_map(bound_type), row.value) : m0 \in mode_set}
        ELSE UNION {IF <<iu, dst_code, m0, t>> \in Q
                    THEN add_component(m, strat_cname(i),
                             {<<iu, dst_code, m0, t>>},
                             bound_map(bound_type), row.value)
                    ELSE {m} : m0 \in mode_set}

----------------------------------------------------------------------------
(* The strategic compilers as a state machine: one step per row *)

PuLPCompilers == {"_apply_dynamic_constraints",
                  "_apply_strategic_constraints_advanced"}

Compilers == PuLPCompilers \cup {"apply_strategic_constraints"}

StrategicPlants ==
    <<Plant("P1", "IU", 2, 0, None), Plant("P2", "IU", 2, 0, None),
      Plant("C1", "GU", 2, 0, None), Plant("C2", "GU", 2, 0, None)>>

StrategicRoutes ==
    { <<Route("R1", "P1", "C1", 0, <<Mode("road", 1, 1), Mode("rail", 1, 2)>>)>>,
      <<Route("R1", "P1", "C1", 0, <<Mode("Road", 1, 1)>>),
        Route("R2", "P1", "C2", 0, <<Mode("road", 1, 1)>>),
        Route("R3", "P2", "C1", 0, <<Mode("road", 1, 1)>>)>>,
      <<Route("R1", "P1", "C1", 0, <<Mode("road", 1, 1)>>),
        Route("R2", "P1", "C2", 0, <<Mode("rail", 1, 1)>>)>> }

StrategicRequests ==
    {r \in {[T |-> T, plants |-> StrategicPlants, routes |-> rts,
             demand |-> <<>>] : T \in 1..MaxT, rts \in StrategicRoutes} :
        validate_network(r)}

NoRequest == [T |-> 0, plants |-> <<>>, routes |-> <<>>, demand |-> <<>>]

(* rows of the constraint table as received (before ConstraintRow) *)
RawRows ==
    { RawRow("P1", NoneStr, NoneStr, 1, "U", 1),
      RawRow("P1", "ROAD", NoneStr, 1, "L", 1),
      RawRow("P1", "road", "C1 ", 1, "E", 1),
      RawRow("P1", NoneStr, "C2", 1, "G", 2),
      RawRow(" P1", "rail", "", 2, "L", 1),
      RawRow("P3", NoneStr, NoneStr, 1, "U", 1),
      RawRow("P1", "rail", "C2", 1, "U", 0),
      RawRow("P2", "", "C2", 1, "U", 1),
      RawRow("P1", NoneStr, NoneStr, MaxT + 1, "G", 1) }

(* rows of IUGUConstraintSchema, which validates types only *)
PyomoRows ==
    { RawRow("P1", NoneStr, NoneStr, 1, "U", 1),
      RawRow("P1", NoneStr, NoneStr, 2, "L", 1),
      RawRow("P1", " ROAD ", NoneStr, 1, " G ", 1),
      RawRow("P1", "rail", NoneStr, 1, "u", 1),
      RawRow("P1", "road", "C1 ", 1, "e", 2),
      RawRow("P1", "rail", "C1", 1, "L", 1),
      RawRow("P1", "road", "C3", 1, "L", 1),
      RawRow("P3", NoneStr, NoneStr, 1, "U", 1),
      RawRow("P1", NoneStr, "C2", 1, "X", 1),
      RawRow("P1", NoneStr, "C1", 1, "U", 1) }

QtyIndexSets ==
    { {},
      {<<"P1", "C1", "road", 1>>},
      {<<"P1", "C3", "Road", 1>>},
      {<<"P1", "C1", "road", 1>>, <<"P1", "C2", "rail", 1>>,
       <<"P2", "C1", "road", 2>>},
      {"P1"} \X {"C1", "C2"} \X {"road", "rail"} \X (1..MaxT) }

SeqsUpTo(S, n) == UNION {[1..k -> S] : k \in 0..n}

InitStrategic ==
    /\ entry \in Compilers
    /\ IF entry = "apply_strategic_constraints"
       THEN /\ req = NoRequest
            /\ qtyIndex \in QtyIndexSets
            /\ rows \in SeqsUpTo(PyomoRows, MaxRows)
       ELSE /\ req \in StrategicRequests
            /\ qtyIndex = {}
            /\ rows \in SeqsUpTo({x \in RawRows : RowAccepted(x)}, MaxRows)
    /\ emergency = FALSE
    /\ pc = "compile"
    /\ idx = 0
    /\ cons = NoConstraints
    /\ vals = NoVals
    /\ base = NoResult
    /\ fallback = NoResult
    /\ solves = <<>>
    /\ result = NoResult
    /\ response = NoResponse
    /\ store = NoStore
    /\ returned = <<>>

StrategicFrame ==
    UNCHANGED <<entry, req, rows, emergency, qtyIndex, vals, base, fallback,
                solves, result, response, store, returned>>

(* _apply_dynamic_constraints on the next row; the row was built by        *)
(* ConstraintRow(...)                                                      *)
DynamicRowStep ==
    /\ pc = "compile" /\ entry = "_apply_dynamic_constraints"
    /\ idx < Len(rows)
    /\ cons' = apply_dynamic_row(cons, Entries(req.routes), req.T,
                                 trim_codes(rows[idx + 1]), idx)
    /\ idx' = idx + 1
    /\ pc' = IF cons'.error THEN "raised" ELSE pc
    /\ StrategicFrame

(* _apply_strategic_constraints_advanced on the next row *)
AdvancedRowStep ==
    /\ pc = "compile" /\ entry = "_apply_strategic_constraints_advanced"
    /\ idx < Len(rows)
    /\ cons' = apply_strategic_row_advanced(cons, Entries(req.routes), req.T,
                                            trim_codes(rows[idx + 1]), idx)
    /\ idx' = idx + 1
    /\ pc' = IF cons'.error THEN "raised" ELSE pc
    /\ StrategicFrame

(* apply_strategic_constraints on the next row *)
PyomoRowStep ==
    /\ pc = "compile" /\ entry = "apply_strategic_constraints"
    /\ idx < Len(rows)
    /\ cons' \in apply_strategic_row(cons, qtyIndex, rows[idx + 1], idx)
    /\ idx' = idx + 1
    /\ pc' = IF cons'.error THEN "raised" ELSE pc
    /\ StrategicFrame

(* the loop is over: the compiler returns *)
CompileReturn ==
    /\ pc = "compile"
    /\ idx = Len(rows)
    /\ pc' = "compiled"
    /\ UNCHANGED <<idx, cons>>
    /\ StrategicFrame

NextStrategic ==
    \/ DynamicRowStep
    \/ AdvancedRowStep
    \/ PyomoRowStep
    \/ CompileReturn

SpecStrategic == InitStrategic /\ [][NextStrategic]_vars

----------------------------------------------------------------------------
(* Properties of the solvers and of the fallback orchestrator *)

(* the quantity the schedule reports for a (route id, mode, period) key *)
ReportedQty(sched, rid, mode, t) ==
    SumSeq([i \in DOMAIN sched |->
               IF sched[i].route_id = rid /\ sched[i].mode = mode
                  /\ sched[i].period = t
               THEN sched[i].quantity_shipped ELSE 0])

(* sum over the route-mode entries into / out of plant id in period t *)
ReportedInbound(id, t) ==
    LET E == Entries(req.routes)
    IN  SumSeq([i \in DOMAIN E |->
                   IF E[i].destination_id = id
                   THEN ReportedQty(result.scheduled_trips, E[i].route_id,
                                    E[i].mode, t)
                   ELSE 0])

ReportedOutbound(id, t) ==
    LET E == Entries(req.routes)
    IN  SumSeq([i \in DOMAIN E |->
                   IF E[i].origin_id = id
                   THEN ReportedQty(result.scheduled_trips, E[i].route_id,
                                    E[i].mode, t)
                   ELSE 0])

BalanceAt(p, t, extra) ==
    vals.inv[<<p.id, t>>] =
        (IF t = 1 THEN p.initial_inventory ELSE vals.inv[<<p.id, t - 1>>])
        + (IF p.type = "IU" THEN vals.prod[<<p.id, t>>] ELSE 0)
        + ReportedInbound(p.id, t) + extra
        - ReportedOutbound(p.id, t)
        - demand_of(req, p.id, t)

SolverReturnedOptimal == entry \in Solvers /\ result.status = "Optimal"

(* C1 as stated: in every plan a solver returns with status Optimal, the   *)
(* ending inventory of every plant and period equals the previous          *)
(* inventory plus production plus the reported inbound quantities minus    *)
(* the reported outbound quantities minus demand.                          *)
C1_Balance ==
    SolverReturnedOptimal =>
        \A i \in DOMAIN req.plants : \A t \in 1..req.T :
            BalanceAt(req.plants[i], t, 0)

(* C1 amended: the same balance, with the emergency inflow Emergency[p,t]  *)
(* added to the inbound side when solve_supply_chain is called with        *)
(* emergency sourcing enabled.                                             *)
C1_BalanceWithEmergency ==
    SolverReturnedOptimal =>
        \A i \in DOMAIN req.plants : \A t \in 1..req.T :
            BalanceAt(req.plants[i], t,
                      IF vals.emergency THEN vals.em[<<req.plants[i].id, t>>]
                      ELSE 0)

C1_Witness ==
    /\ entry = "solve_supply_chain" /\ emergency
    /\ result.status = "Optimal"
    /\ result.scheduled_trips # <<>>
    /\ \E i \in DOMAIN req.plants : \E t \in 1..req.T :
           vals.em[<<req.plants[i].id, t>>] > 0

IsFallback == entry = "solve_with_emergency_fallback"

(* C2: the orchestrator solves at most twice; the first solve is the base  *)
(* solve, the second is emergency-enabled and only follows an Infeasible   *)
(* base solve; a base result that is not Infeasible is returned unchanged  *)
(* after a single solve.                                                   *)
C2_AtMostTwoSolves ==
    IsFallback =>
        /\ Len(solves) <= 2
        /\ Len(solves) >= 1 => solves[1][1] = FALSE
        /\ Len(solves) = 2 =>
               solves[1] = <<FALSE, "Infeasible">> /\ solves[2][1] = TRUE
        /\ (pc = "returned" /\ base.status # "Infeasible") =>
               result = base /\ Len(solves) = 1

C2_Witness ==
    /\ IsFallback /\ pc = "returned"
    /\ base.status = "Optimal" /\ base.scheduled_trips # <<>>
    /\ Len(solves) = 1

(* C3: after an Infeasible base solve the orchestrator returns Optimal     *)
(* with the fallback's cost and schedule and the emergency message when    *)
(* the emergency-enabled solve is Optimal, and otherwise the status of     *)
(* the emergency-enabled solve, which is not Optimal.                      *)
C3_FallbackReturn ==
    (IsFallback /\ pc = "returned" /\ base.status = "Infeasible") =>
        IF fallback.status = "Optimal"
        THEN /\ result.status = "Optimal"
             /\ result.total_cost = fallback.total_cost
             /\ result.scheduled_trips = fallback.scheduled_trips
             /\ result.message = "Base model infeasible; used high-cost emergency sourcing to produce a feasible plan."
        ELSE /\ result.status = fallback.status
             /\ result.status # "Optimal"

C3_Witness ==
    /\ IsFallback /\ pc = "returned" /\ base.status = "Infeasible"
    /\ fallback.status = "Not Solved"
    /\ result.status = "Not Solved"

(* C4: no emergency-enabled solve of solve_supply_chain ends Infeasible.   *)
C4_EmergencyNeverInfeasible ==
    \A i \in DOMAIN solves : solves[i][1] => solves[i][2] # "Infeasible"

C4_Witness ==
    /\ IsFallback
    /\ Len(solves) = 2 /\ solves[1] = <<FALSE, "Infeasible">>
    /\ solves[2] = <<TRUE, "Optimal">>
    /\ \E x \in DOMAIN vals.em : vals.em[x] > 0

(* C5 as stated: the status of every returned result is one of the five    *)
(* public values, and building the response from it does not fail.         *)
C5_StatusPublic ==
    /\ pc \in {"returned", "responded"} => result.status \in PublicStatuses
    /\ (pc = "raised" /\ result # NoResult) => response.built

(* C6: a returned result whose status is not Optimal has total_cost None   *)
(* and an empty schedule.                                                  *)
C6_NoPlanUnlessOptimal ==
    (pc = "returned" /\ result.status # "Optimal") =>
        result.total_cost = None /\ result.scheduled_trips = <<>>

C6_Witness ==
    /\ IsFallback /\ pc = "returned" /\ Len(solves) = 2
    /\ result.status \notin {"Optimal", "Infeasible"}
    /\ result.total_cost = None /\ result.scheduled_trips = <<>>

----------------------------------------------------------------------------
(* Properties of the strategic compilers *)

IsPuLP == entry \in PuLPCompilers

(* the validated row at 0-based index i *)
RowAt(i) == trim_codes(rows[i + 1])

(* the constraints added for the row at index i (the index ends the name) *)
ConsOfRow(i) == {n \in DOMAIN cons.byName : n[Len(n)] = i}

(* The keys of the (route, mode, t) triples in the scope of a row: origin  *)
(* is the row's producer, destination and mode as the row sets them.  The  *)
(* mode is compared exactly, or ignoring letter case.                      *)
ScopeKeys(row, exact) ==
    LET E == Entries(req.routes)
    IN  {KeyOf(E[j], row.time_period) :
            j \in {x \in DOMAIN E :
                     /\ E[x].origin_id = row.iu_code
                     /\ Truthy(row.iugu_code) =>
                            E[x].destination_id = row.iugu_code
                     /\ Truthy(row.transport_code) =>
                            IF exact THEN E[x].mode = row.transport_code
                            ELSE Lower(E[x].mode) = Lower(row.transport_code)}}

SumsScope(exact) ==
    IsPuLP =>
        \A i \in 0..(idx - 1) :
            LET row == RowAt(i)
            IN  row.time_period \in 1..req.T =>
                    IF ScopeKeys(row, exact) = {} THEN ConsOfRow(i) = {}
                    ELSE /\ Cardinality(ConsOfRow(i)) = 1
                         /\ \A n \in ConsOfRow(i) :
                                Range(cons.byName[n].vars) = ScopeKeys(row, exact)

(* C7 as stated: the constraint of a row with period in 1..T sums exactly  *)
(* the Qty variables of the triples of the row's producer and period       *)
(* whose destination and mode are the ones the row sets (all of them       *)
(* where the row leaves the field unset).                                  *)
C7_SumsScope == SumsScope(TRUE)

(* C7 amended: the same, with the row's mode code compared to the route's  *)
(* mode codes ignoring letter case.                                        *)
C7_SumsScopeIgnoringCase == SumsScope(FALSE)

C7_Witness ==
    /\ IsPuLP /\ pc = "compiled"
    /\ \E i \in 0..(idx - 1) : \E n \in ConsOfRow(i) :
           /\ RowAt(i).transport_code = "ROAD"
           /\ \E j \in DOMAIN cons.byName[n].vars :
                  cons.byName[n].vars[j][2] = "Road"
    /\ \E i \in 0..(idx - 1) : \E n \in ConsOfRow(i) :
           Truthy(RowAt(i).iugu_code) /\ Truthy(RowAt(i).transport_code)

(* the bound kind of the row at index i as the table gives it *)
BoundKind(i) ==
    IF IsPuLP THEN rows[i + 1].bound_type
    ELSE Upper(Strip(rows[i + 1].bound_type))

(* C8: the relation of every emitted constraint is >= for kinds L and G,   *)
(* <= for U and = for E, in the PuLP compilers and the Pyomo applicator.   *)
C8_RelationOfBoundKind ==
    \A n \in DOMAIN cons.byName :
        LET kind == BoundKind(n[Len(n)])
            rel == cons.byName[n].rel
        IN  /\ kind \in {"L", "G"} => rel = ">="
            /\ kind = "U" => rel = "<="
            /\ kind = "E" => rel = "=="
            /\ kind \in {"L", "G", "U", "E"}

C8_Witness ==
    /\ entry = "_apply_dynamic_constraints" /\ pc = "compiled"
    /\ \E n \in DOMAIN cons.byName :
           rows[n[Len(n)] + 1].bound_type = "G" /\ cons.byName[n].rel = ">="

(* the row at index idx matches no (route, mode, period) triple *)
Unmatched ==
    IF IsPuLP
    THEN \/ RowAt(idx).time_period \notin 1..req.T
         \/ ScopeKeys(RowAt(idx), FALSE) = {}
    ELSE LET row == rows[idx + 1]
         IN  ~ \E k \in qtyIndex :
                   /\ k[1] = row.iu_code
                   /\ k[4] = row.time_period
                   /\ Truthy(row.iugu_code) => k[2] = Strip(row.iugu_code)
                   /\ Truthy(row.transport_code) =>
                          k[3] = Lower(Strip(row.transport_code))

(* C9 as stated: processing a row that matches no triple raises no error   *)
(* and leaves the constraints of the model as they were.                   *)
C9_UnmatchedRowSkipped ==
    [][(pc = "compile" /\ idx < Len(rows) /\ Unmatched)
           => (cons' = cons /\ pc' # "raised")]_vars

(* all orders of a list of rows *)
Perms(rs) ==
    {[i \in DOMAIN rs |-> rs[f[i]]] :
        f \in {g \in [DOMAIN rs -> DOMAIN rs] :
                 \A a, b \in DOMAIN rs : a # b => g[a] # g[b]}}

ConstraintSet(m) == {m.byName[n] : n \in DOMAIN m.byName}

Validated(rs) == [i \in DOMAIN rs |-> trim_codes(rs[i])]

Compile(rs) ==
    IF entry = "_apply_dynamic_constraints"
    THEN apply_dynamic_constraints(NoConstraints, Entries(req.routes), req.T,
                                   Validated(rs), 0)
    ELSE apply_strategic_constraints_advanced(NoConstraints,
             Entries(req.routes), req.T, Validated(rs), 0)

(* C10: every row that selects a variable yields its own constraint, no    *)
(* add fails on a name already used, and the set of (variables, relation,  *)
(* value) constraints is the same for every order of the rows.             *)
C10_OrderIrrelevant ==
    IsPuLP =>
        /\ pc # "raised"
        /\ pc = "compiled" =>
               /\ Cardinality(DOMAIN cons.byName) =
                      Cardinality({i \in 0..(Len(rows) - 1) :
                                      /\ RowAt(i).time_period \in 1..req.T
                                      /\ ScopeKeys(RowAt(i), FALSE) # {}})
               /\ \A p \in Perms(rows) :
                      /\ ~Compile(p).error
                      /\ ConstraintSet(Compile(p)) = ConstraintSet(cons)

C10_Witness ==
    /\ IsPuLP /\ pc = "compiled" /\ Len(rows) >= 2
    /\ rows[1] # rows[2]
    /\ \E n1, n2 \in DOMAIN cons.byName :
           /\ n1 # n2
           /\ Range(cons.byName[n1].vars) \cap Range(cons.byName[n2].vars) # {}

----------------------------------------------------------------------------
(* Properties of request validation and of the accepted requests *)

RequestAccepted == pc \notin {"validate", "rejected"}

DuplicatePlantId(r) ==
    \E i, j \in DOMAIN r.plants : i # j /\ r.plants[i].id = r.plants[j].id

UnknownEndpoint(r) ==
    \E i \in DOMAIN r.routes :
        \/ r.routes[i].origin_id \notin PlantIds(r)
        \/ r.routes[i].destination_id \notin PlantIds(r)

OriginNotProducer(r) ==
    \E i \in DOMAIN r.routes : \E j \in DOMAIN r.plants :
        r.plants[j].id = r.routes[i].origin_id /\ r.plants[j].type # "IU"

SelfLoop(r) ==
    \E i \in DOMAIN r.routes : r.routes[i].origin_id = r.routes[i].destination_id

(* C11: validation rejects every request that has two plants of one id, a  *)
(* route whose origin or destination is not a plant of the request, a      *)
(* route whose origin plant is not an IU, or a route whose origin equals   *)
(* its destination, for the request model of app/schemas.py and for the    *)
(* one of solver_logic.py.                                                 *)
C11_FlawedNetworkRejected ==
    (pc # "validate"
     /\ (DuplicatePlantId(req) \/ UnknownEndpoint(req)
         \/ OriginNotProducer(req) \/ SelfLoop(req)))
        => pc = "rejected"

DistinctRouteIds(r) ==
    \A i, j \in DOMAIN r.routes : i # j => r.routes[i].id # r.routes[j].id

DistinctModeCodes(r) ==
    \A i \in DOMAIN r.routes : \A a, b \in DOMAIN r.routes[i].modes :
        a # b => r.routes[i].modes[a].mode # r.routes[i].modes[b].mode

(* C12: in every accepted request the route ids are pairwise distinct and  *)
(* the mode codes within a route are pairwise distinct, so no two          *)
(* route-mode entries share a (route id, mode, period) key, and every      *)
(* schedule record carries the origin and destination of the route it was  *)
(* shipped on.                                                             *)
C12_KeysDistinct ==
    RequestAccepted =>
        /\ DistinctRouteIds(req)
        /\ DistinctModeCodes(req)
        /\ Cardinality(KeyPairs(Entries(req.routes))) = Len(Entries(req.routes))
        /\ \A k \in DOMAIN result.scheduled_trips :
               \A i \in DOMAIN req.routes :
                   req.routes[i].id = result.scheduled_trips[k].route_id =>
                       /\ result.scheduled_trips[k].origin_id
                              = req.routes[i].origin_id
                       /\ result.scheduled_trips[k].destination_id
                              = req.routes[i].destination_id

----------------------------------------------------------------------------
(* Properties of the Optimal plans *)

PlanReturned == result.status = "Optimal"

(* the route-mode entries a schedule record belongs to *)
EntriesOf(rec) ==
    LET E == Entries(req.routes)
    IN  {E[i] : i \in {j \in DOMAIN E : /\ E[j].route_id = rec.route_id
                                        /\ E[j].mode = rec.mode}}

(* C13: in every Optimal plan, every schedule record with num_trips n and  *)
(* quantity q on a route with SBQ s and a mode of trip capacity C has      *)
(* n * s <= q <= n * C; no record has q > 0 with n = 0.                    *)
C13_IntegralityCoupling ==
    PlanReturned =>
        \A k \in DOMAIN result.scheduled_trips :
            LET rec == result.scheduled_trips[k]
            IN  /\ \A e \in EntriesOf(rec) :
                       /\ rec.num_trips * e.sbq <= rec.quantity_shipped
                       /\ rec.quantity_shipped
                              <= rec.num_trips * e.capacity_per_trip
                /\ rec.quantity_shipped > 0 => rec.num_trips > 0

C13_Witness ==
    /\ PlanReturned
    /\ \E k \in DOMAIN result.scheduled_trips :
           LET rec == result.scheduled_trips[k]
           IN  /\ rec.quantity_shipped > 0
               /\ \E e \in EntriesOf(rec) :
                      /\ e.sbq > 0
                      /\ rec.quantity_shipped = rec.num_trips * e.sbq

(* C14: in every optimal solution the trip count of every (route, mode,    *)
(* period) is the integer ceiling of Qty / capacity_per_trip, and 0 when   *)
(* Qty is 0.                                                               *)
C14_TripsIsCeiling ==
    PlanReturned =>
        \A k \in DOMAIN vals.trips :
            LET E == Entries(req.routes)
            IN  \A i \in DOMAIN E :
                    (E[i].route_id = k[1] /\ E[i].mode = k[2]) =>
                        vals.trips[k] = CeilDiv(vals.q[k], E[i].capacity_per_trip)

(* C15: in every Optimal plan, safety_stock(p) <= inv[p,t] <=              *)
(* max_capacity(p) for every plant p and period t of the horizon.          *)
C15_InventoryBounds ==
    PlanReturned =>
        \A i \in DOMAIN req.plants : \A t \in 1..req.T :
            /\ req.plants[i].safety_stock <= vals.inv[<<req.plants[i].id, t>>]
            /\ vals.inv[<<req.plants[i].id, t>>] <= req.plants[i].max_capacity

C15_Witness ==
    /\ PlanReturned
    /\ \E i \in DOMAIN req.plants : \E t \in 1..req.T :
           /\ req.plants[i].safety_stock > 0
           /\ vals.inv[<<req.plants[i].id, t>>] = req.plants[i].safety_stock
    /\ \E i \in DOMAIN req.plants : \E t \in 1..req.T :
           vals.inv[<<req.plants[i].id, t>>] = req.plants[i].max_capacity

RecordKey(rec) == <<rec.route_id, rec.mode, rec.period>>

(* C17: the schedule of an Optimal plan has a record for a (route, mode,   *)
(* period) triple if and only if its trip count is > 0 or its quantity is  *)
(* > 0 (1e-9 in the code); every record has num_trips >= 0 and             *)
(* quantity_shipped >= 0; the list ascends in (period, route id, mode).    *)
C17_ScheduleRecords ==
    PlanReturned =>
        LET sched == result.scheduled_trips
        IN  /\ \A k \in DOMAIN vals.trips :
                   (\E i \in DOMAIN sched : RecordKey(sched[i]) = k)
                       <=> (vals.trips[k] > 0 \/ vals.q[k] > 0)
            /\ \A i \in DOMAIN sched :
                   /\ RecordKey(sched[i]) \in DOMAIN vals.trips
                   /\ sched[i].num_trips >= 0
                   /\ sched[i].quantity_shipped >= 0
            /\ \A i, j \in DOMAIN sched :
                   i < j => KeyLess(RecordKey(sched[i]), RecordKey(sched[j]))

C17_Witness ==
    /\ PlanReturned
    /\ Len(result.scheduled_trips) >= 2
    /\ \E k \in DOMAIN vals.trips :
           \A i \in DOMAIN result.scheduled_trips :
               RecordKey(result.scheduled_trips[i]) # k
    /\ \E i \in DOMAIN result.scheduled_trips :
           /\ result.scheduled_trips[i].quantity_shipped = 0
           /\ result.scheduled_trips[i].num_trips > 0

----------------------------------------------------------------------------
(* The end-to-end scenarios *)

IsS2 == entry \in Solvers /\ req = S2Request(VariantOf(entry))

S2Production ==
    vals.prod[<<"P1", 1>>] = 30 /\ vals.prod[<<"P1", 2>>] = 30

(* C18 as stated: S2 is solved with production 30 in each period and the   *)
(* minimum total cost 730 = 600 production + 120 transport + 10 holding.   *)
C18_S2Cost730 ==
    (IsS2 /\ pc = "returned") =>
        /\ result.status # "Infeasible"
        /\ PlanReturned => S2Production /\ result.total_cost = 730

(* C18 amended: S2 has a feasible point, and every Optimal plan has        *)
(* production 30 in each period and total cost 720 = 600 production + 120  *)
(* transport + 0 holding: P1 is given no holding cost, so the 10 units it  *)
(* carries from period 1 to period 2 cost nothing.                         *)
C18_S2Cost720 ==
    (IsS2 /\ pc = "returned") =>
        /\ result.status # "Infeasible"
        /\ PlanReturned =>
               /\ S2Production
               /\ result.total_cost = 720
               /\ prod_cost(req, vals) = 600
               /\ trans_cost(req, Entries(req.routes), vals) = 120
               /\ hold_cost(req, vals) = 0

C18_Witness ==
    /\ IsS2 /\ pc = "returned" /\ PlanReturned
    /\ vals.inv[<<"P1", 1>>] = 10
    /\ vals.q[<<"R1", "road", 2>>] = 40

IsS3 ==
    /\ entry \in Solvers
    /\ \E c \in S3Capacities : req = S3Request(VariantOf(entry), c)

S3Plan == vals.trips[<<"R1", "road", 1>>] = 2 /\ vals.q[<<"R1", "road", 1>>] = 20

S3WholeLoads ==
    \A qt \in QChoices(BuildModel(VariantOf(entry), req, rows, emergency), 1) :
        qt[<<"R1", "road">>] % 10 = 0

(* C19 as stated: in S3 every feasible plan ships a whole multiple of 10,  *)
(* the optimal plan has Trips = 2 and Qty = 20, and whenever the           *)
(* destination's max_capacity is below 20 there is no plan: the status is  *)
(* Infeasible.                                                             *)
C19_S3InfeasibleBelow20 ==
    (IsS3 /\ pc = "returned") =>
        /\ S3WholeLoads
        /\ PlanReturned => S3Plan
        /\ req.plants[2].max_capacity < 20 => ~PlanReturned

(* C19 amended: in S3 every feasible plan ships a whole multiple of 10 and *)
(* the optimal plan has Trips = 2 and Qty = 20, which leaves 5 at the      *)
(* destination; there is no plan, and the model is infeasible, exactly     *)
(* when the destination's max_capacity is below 5.                         *)
C19_S3InfeasibleBelow5 ==
    (IsS3 /\ pc = "returned") =>
        /\ S3WholeLoads
        /\ PlanReturned => S3Plan /\ vals.inv[<<"C1", 1>>] = 5
        /\ req.plants[2].max_capacity < 5 => ~PlanReturned
        /\ req.plants[2].max_capacity >= 5 => result.status # "Infeasible"

C19_Witness ==
    /\ IsS3 /\ pc = "returned" /\ PlanReturned
    /\ req.plants[2].max_capacity = 5
    /\ S3Plan

IsS5 ==
    /\ entry \in {"solve_supply_chain", "solve_with_emergency_fallback"}
    /\ req = S5Request("supply")

(* C20: S5 (production cap 0, demand 10 at C1, one period) ends with       *)
(* status Infeasible without fallback; solve_with_emergency_fallback ends  *)
(* with status Optimal, Emergency[C1,1] = 10, total cost 10^7 plus the     *)
(* transport cost and the message of the emergency recovery.               *)
C20_S5Fallback ==
    (IsS5 /\ pc # "validate") =>
        /\ pc # "rejected"
        /\ (entry = "solve_supply_chain" /\ pc = "returned")
               => ~PlanReturned
        /\ (IsFallback /\ pc = "returned" /\ fallback.status = "Optimal") =>
               /\ result.status = "Optimal"
               /\ vals.em[<<"C1", 1>>] = 10
               /\ result.total_cost =
                      10 * emergency_unit_cost
                      + trans_cost(req, Entries(req.routes), vals)
               /\ result.message = "Base model infeasible; used high-cost emergency sourcing to produce a feasible plan."

----------------------------------------------------------------------------
(* The Assembler: the payload built from the tables of the CSV suite, by   *)
(* _build_from_new_real_data (preprocess_data.py) and by                   *)
(* _build_optimization_request_from_csvs (advanced_endpoints.py).  A table *)
(* is the sequence of its rows.  IUGUType.csv and ProductionCost.csv are   *)
(* TypeRows and ProductionCostRows in every run; limit_plants and          *)
(* limit_routes exceed the sizes of the tables.                            *)

(* rows of the closing-stock and of the logistics table *)
MaxTableRows == 2

TypeRows == <<[iugu_code |-> "P1", plant_type |-> "IU"],
              [iugu_code |-> "C1", plant_type |-> "GU"],
              [iugu_code |-> "C2", plant_type |-> "GU"]>>

ProductionCostRows ==
    <<[iu_code |-> "P1", time_period |-> 1, production_cost |-> 200]>>

OpeningRow(code, stock) == [iugu_code |-> code, opening_stock |-> stock]

ClosingRow(code, t, lo, hi) ==
    [iugu_code |-> code, time_period |-> t, min_close_stock |-> lo,
     max_close_stock |-> hi]

DemandRow(code, t, d) == [iugu_code |-> code, time_period |-> t, demand |-> d]

CapacityRow(code, t, c) == [iu_code |-> code, time_period |-> t, capacity |-> c]

LogisticsRow(src, dst, code, t, freight, handling, mult) ==
    [from_iu_code |-> src, to_iugu_code |-> dst, transport_code |-> code,
     time_period |-> t, freight_cost |-> freight, handling_cost |-> handling,
     quantity_multiplier |-> mult]

(* f"{src}->{dst}" *)
RouteIdOf(src, dst) ==
    CASE src = "P1" /\ dst = "C1" -> "P1->C1"
      [] src = "P1" /\ dst = "C2" -> "P1->C2"
      [] OTHER -> "->"

(* plant_type = {IUGU CODE: PLANT TYPE}; plant_ids = list(plant_type) *)
plant_ids == [i \in DOMAIN TypeRows |-> TypeRows[i].iugu_code]

plant_type(pid) ==
    TypeRows[CHOOSE i \in DOMAIN TypeRows : TypeRows[i].iugu_code = pid].plant_type

(* the TIME PERIOD columns of the demand, capacity and logistics tables *)
PeriodColumns(tb) ==
    <<{tb.demand[i].time_period : i \in DOMAIN tb.demand},
      {tb.capacity[i].time_period : i \in DOMAIN tb.capacity},
      {tb.logistics[i].time_period : i \in DOMAIN tb.logistics}>>

(* int(df[col].max()): the maximum of an empty column is NaN, and int(NaN) *)
(* raises ValueError                                                       *)
ColumnMaxRaises(tb) == \E i \in 1..3 : PeriodColumns(tb)[i] = {}

(* max_period = 1; max_period = max(max_period, int(df[col].max())) *)
max_period(tb) == MaxOf({1} \cup UNION Range(PeriodColumns(tb)))

(* a horizon that is the observed maximum period alone *)
T_final_observed(tb) == max_period(tb)

(* T_final = max(T, max_period) *)
T_final(tb) == IF tb.T >= max_period(tb) THEN tb.T ELSE max_period(tb)

(* opening.get(pid, 0.0): a dict comprehension, the last row of a code wins *)
opening_get(tb, pid, default) ==
    LET hits == {i \in DOMAIN tb.opening : tb.opening[i].iugu_code = pid}
    IN  IF hits = {} THEN default ELSE tb.opening[MaxOf(hits)].opening_stock

(* min_close[pid] = min(min_close.get(pid, inf), min_val) over the rows of *)
(* pid in every period; None when pid has no row                           *)
min_close(tb, pid) ==
    LET seen == {tb.closing[i].min_close_stock :
                    i \in {j \in DOMAIN tb.closing :
                              tb.closing[j].iugu_code = pid}}
    IN  IF seen = {} THEN None ELSE MinOf(seen)

(* max_close[pid] = max(max_close.get(pid, 0.0), max_val) *)
max_close(tb, pid) ==
    LET seen == {tb.closing[i].max_close_stock :
                    i \in {j \in DOMAIN tb.closing :
                              tb.closing[j].iugu_code = pid}}
    IN  IF seen = {} THEN None ELSE MaxOf({0} \cup seen)

(* prod_costs[pid] = grp["PRODUCTION COST"].mean(): one row in the model *)
prod_costs_get(pid) ==
    LET hits == {i \in DOMAIN ProductionCostRows :
                    ProductionCostRows[i].iu_code = pid}
    IN  IF hits = {} THEN None
        ELSE SumSeq([i \in 1..Cardinality(hits) |->
                        ProductionCostRows[SetToSeq(hits)[i]].production_cost])
             \div Cardinality(hits)

(* prod_caps[pid] = grp["CAPACITY"].min() *)
prod_caps_get(tb, pid) ==
    LET seen == {tb.capacity[i].capacity :
                    i \in {j \in DOMAIN tb.capacity : tb.capacity[j].iu_code = pid}}
    IN  IF seen = {} THEN None ELSE MinOf(seen)

(* demand = {pid: [0.0] * T}, then demand[pid][t - 1] = DEMAND row by row  *)
(* for 1 <= t <= T                                                         *)
demand_series(tbl, pid, T) ==
    [t \in 1..T |->
        LET hits == {i \in DOMAIN tbl : tbl[i].iugu_code = pid
                                        /\ tbl[i].time_period = t}
        IN  IF hits = {} THEN 0 ELSE tbl[MaxOf(hits)].demand]

(* the position of the route of (src, dst) in the routes grouped so far *)
RouteAt(acc, src, dst) ==
    {i \in DOMAIN acc : acc[i].origin_id = src /\ acc[i].destination_id = dst}

(* the loop over LogisticsIUGU.csv of _build_from_new_real_data: one route *)
(* per (src, dst), one mode entry appended per row                         *)
RECURSIVE grouped_routes(_, _)
grouped_routes(tbl, acc) ==
    IF tbl = <<>> THEN acc
    ELSE LET row == Head(tbl)
             src == row.from_iu_code
             dst == row.to_iugu_code
             qty_mult == IF row.quantity_multiplier = 0 THEN 1
                         ELSE row.quantity_multiplier
             acc1 == IF RouteAt(acc, src, dst) = {}
                     THEN Append(acc, Route(RouteIdOf(src, dst), src, dst, 0, <<>>))
                     ELSE acc
             j == CHOOSE i \in RouteAt(acc1, src, dst) : TRUE
         IN  IF src \notin Range(plant_ids) \/ dst \notin Range(plant_ids)
             THEN grouped_routes(Tail(tbl), acc)
             ELSE grouped_routes(Tail(tbl),
                      [acc1 EXCEPT ![j].modes =
                          Append(@, Mode(Lower(row.transport_code),
                                         row.freight_cost + row.handling_cost,
                                         IF qty_mult < 1 THEN 1 ELSE qty_mult))])

(* a plant of the payload *)
PlantOut(id, type, initial, cap, safety, hold, cost, maxprod) ==
    [id |-> id, type |-> type, initial_inventory |-> initial,
     max_capacity |-> cap, safety_stock |-> safety, holding_cost |-> hold,
     production_cost |-> cost, max_production_per_period |-> maxprod]

(* "Build plants" of _build_from_new_real_data; 0.005 * cost and           *)
(* opening_stock * 1.5 are whole for the figures of the model              *)
new_real_data_plant(tb, pid) ==
    LET ptype == plant_type(pid)
        opening_stock == opening_get(tb, pid, 0)
        safety == IF min_close(tb, pid) # None THEN min_close(tb, pid) ELSE 0
        max_cap == IF max_close(tb, pid) # None THEN max_close(tb, pid)
                   ELSE (opening_stock * 3) \div 2
        unit_prod_cost == IF ptype = "IU" THEN prod_costs_get(pid) ELSE None
        prod_cap == IF ptype = "IU" THEN prod_caps_get(tb, pid) ELSE None
    IN  PlantOut(pid, IF ptype = "IU" THEN "IU" ELSE "GU", opening_stock,
                 max_cap, safety,
                 (5 * (IF unit_prod_cost = None \/ unit_prod_cost = 0 THEN 1000
                       ELSE unit_prod_cost)) \div 1000,
                 unit_prod_cost, prod_cap)

(* the payload _build_from_new_real_data returns *)
build_from_new_real_data(tb, T) ==
    [T |-> T,
     plants |-> [i \in DOMAIN plant_ids |-> new_real_data_plant(tb, plant_ids[i])],
     routes |-> grouped_routes(tb.logistics, <<>>),
     demand |-> [pid \in Range(plant_ids) |-> demand_series(tb.demand, pid, T)]]

(* closing_stock[(node, period)] = {"min": ..., "max": max or min * 2}:    *)
(* the last row of a key wins                                              *)
closing_stock_get(tb, node, t) ==
    LET hits == {i \in DOMAIN tb.closing : tb.closing[i].iugu_code = node
                                           /\ tb.closing[i].time_period = t}
        row == tb.closing[MaxOf(hits)]
    IN  IF hits = {} THEN [found |-> FALSE, min |-> None, max |-> None]
        ELSE [found |-> TRUE, min |-> row.min_close_stock,
              max |-> IF row.max_close_stock # 0 THEN row.max_close_stock
                      ELSE row.min_close_stock * 2]

(* {(code, period): value}.get((node, t), 0.0) *)
by_period_get(tbl, field, node, t) ==
    LET hits == {i \in DOMAIN tbl : tbl[i].iu_code = node
                                    /\ tbl[i].time_period = t}
    IN  IF hits = {} THEN 0 ELSE tbl[MaxOf(hits)][field]

(* "Build plants" of _build_optimization_request_from_csvs; the averages   *)
(* and initial_inv * 0.2 are whole for the figures of the model            *)
csv_plant(tb, node_id) ==
    LET node_type == plant_type(node_id)
        initial_inv == opening_get(tb, node_id, 0)
        base1 == closing_stock_get(tb, node_id, 1)
        safety == IF base1.found THEN base1.min ELSE initial_inv \div 5
        max_cap == IF base1.found THEN base1.max ELSE initial_inv * 2
        avg_prod_cost ==
            IF node_type = "IU"
            THEN SumSeq([t \in 1..tb.T |->
                    by_period_get(ProductionCostRows, "production_cost",
                                  node_id, t)]) \div tb.T
            ELSE 0
        max_prod ==
            IF node_type = "IU"
            THEN SumSeq([t \in 1..tb.T |->
                    by_period_get(tb.capacity, "capacity", node_id, t)])
                 \div tb.T
            ELSE None
    IN  PlantOut(node_id, node_type, Max0(initial_inv),
                 MaxOf({max_cap, initial_inv, safety, 1}), Max0(safety), 5,
                 Max0(avg_prod_cost),
                 IF max_prod # None /\ max_prod > 0 THEN max_prod ELSE None)

(* the loop over logistics_rows of _build_optimization_request_from_csvs:  *)
(* one route per (from, to), the first row of a mode makes its entry       *)
RECURSIVE routes_dict(_, _)
routes_dict(tbl, acc) ==
    IF tbl = <<>> THEN acc
    ELSE LET row == Head(tbl)
             src == row.from_iu_code
             dst == row.to_iugu_code
             acc1 == IF RouteAt(acc, src, dst) = {}
                     THEN Append(acc, Route(RouteIdOf(src, dst), src, dst, 0, <<>>))
                     ELSE acc
             j == CHOOSE i \in RouteAt(acc1, src, dst) : TRUE
             known == {acc1[j].modes[k].mode : k \in DOMAIN acc1[j].modes}
         IN  routes_dict(Tail(tbl),
                 IF row.transport_code \in known THEN acc1
                 ELSE [acc1 EXCEPT ![j].modes =
                          Append(@, Mode(row.transport_code,
                                         row.freight_cost + row.handling_cost,
                                         row.quantity_multiplier))])

(* the arguments of OptimizationRequest(T=T, plants=..., routes=...,       *)
(* demand=demand_dict)                                                     *)
build_optimization_request_from_csvs(tb) ==
    [T |-> tb.T,
     plants |-> [i \in DOMAIN plant_ids |-> csv_plant(tb, plant_ids[i])],
     routes |-> routes_dict(tb.logistics, <<>>),
     demand |-> [pid \in Range(plant_ids) |-> demand_series(tb.demand, pid, tb.T)]]

(* the tables of the model *)
Horizons == {1, 2, 4}

OpeningTables == {<<>>, <<OpeningRow("P1", 10)>>, <<OpeningRow("C1", 10)>>}

ClosingRows == {ClosingRow("P1", t, b[1], b[2]) :
                   t \in 1..MaxT, b \in {<<1, 5>>, <<2, 0>>}}

DemandTables == {<<>>} \cup {<<DemandRow("C1", t, 1)>> : t \in {1, MaxT + 1}}

CapacityTables == {<<>>} \cup {<<CapacityRow("P1", t, 4)>> : t \in {1, MaxT + 1}}

LogisticsRows ==
    {LogisticsRow("P1", "C1", "T1", t, 2 * t, 1, 2) : t \in 1..MaxT}
        \cup {LogisticsRow("P1", "C1", "T2", 1, 2, 1, 2),
              LogisticsRow("P1", "C2", "T1", 1, 2, 1, 2)}

TableSets ==
    [T : Horizons, opening : OpeningTables,
     closing : SeqsUpTo(ClosingRows, MaxTableRows),
     demand : DemandTables, capacity : CapacityTables,
     logistics : SeqsUpTo(LogisticsRows, MaxTableRows)]

Assemblers == {"_build_from_new_real_data",
               "_build_optimization_request_from_csvs"}

NoPayload == [T |-> 0, plants |-> <<>>, routes |-> <<>>, demand |-> <<>>]

InitAssembler ==
    /\ entry \in Assemblers
    /\ req \in TableSets
    /\ rows = <<>>
    /\ emergency = FALSE
    /\ pc = "assemble"
    /\ idx = 0
    /\ cons = NoConstraints
    /\ qtyIndex = {}
    /\ vals = NoVals
    /\ base = NoResult
    /\ fallback = NoResult
    /\ solves = <<>>
    /\ result = NoPayload
    /\ response = NoResponse
    /\ store = NoStore
    /\ returned = <<>>

AssemblerFrame ==
    UNCHANGED <<entry, req, rows, emergency, idx, cons, qtyIndex, vals, base,
                fallback, solves, response, store, returned>>

(* build_initial_data with ClinkerDemand.csv present *)
BuildFromNewRealData ==
    /\ pc = "assemble" /\ entry = "_build_from_new_real_data"
    /\ IF ColumnMaxRaises(req)
       THEN pc' = "raised" /\ result' = result
       ELSE /\ result' = build_from_new_real_data(req, T_final(req))
            /\ pc' = "assembled"
    /\ AssemblerFrame

(* the request built for /optimize-full; OptimizationRequest(...) runs the *)
(* validators of app/schemas.py                                            *)
BuildOptimizationRequestFromCsvs ==
    /\ pc = "assemble" /\ entry = "_build_optimization_request_from_csvs"
    /\ LET payload == build_optimization_request_from_csvs(req)
       IN  IF validate_network(payload)
           THEN result' = payload /\ pc' = "assembled"
           ELSE result' = result /\ pc' = "raised"
    /\ AssemblerFrame

NextAssembler ==
    \/ BuildFromNewRealData
    \/ BuildOptimizationRequestFromCsvs

SpecAssembler == InitAssembler /\ [][NextAssembler]_vars

----------------------------------------------------------------------------
(* The loader of app/main_v2.py: get_initial_data caches one dict per      *)
(* argument tuple, and _load_and_clean_data sanitises that dict in place.  *)
(* A run fixes the arguments; req is the dict build_initial_data makes     *)
(* for them, store the cached dict once it exists.                         *)

(* calls of _load_and_clean_data in a run *)
MaxCalls == 3

(* a capacity that grows with the inventory instead of being raised to it *)
sanitize_plant_adding_initial(plant) ==
    LET safety0 == Max0(OrZero(plant.safety_stock))
        initial == Max0(OrZero(plant.initial_inventory))
        cap0 == OrZero(plant.max_capacity)
        cap1 == IF cap0 <= 0 THEN MaxOf({initial, safety0, 1}) ELSE cap0
        max_cap == cap1 + initial
    IN  [plant EXCEPT
            !.production_cost = IF @ # None THEN @ ELSE 0,
            !.holding_cost = Max0(IF @ # None THEN @ ELSE 0),
            !.initial_inventory = initial,
            !.max_capacity = max_cap,
            !.safety_stock = IF safety0 > max_cap THEN max_cap ELSE safety0,
            !.max_production_per_period = IF @ # None THEN Max0(@) ELSE None]

(* _sanitize_plant: the plant dict after the call *)
sanitize_plant(plant) ==
    LET safety0 == Max0(OrZero(plant.safety_stock))
        initial == Max0(OrZero(plant.initial_inventory))
        cap0 == OrZero(plant.max_capacity)
        cap1 == IF cap0 <= 0 THEN MaxOf({initial, safety0, 1}) ELSE cap0
        max_cap == IF initial > cap1 THEN initial ELSE cap1
    IN  [plant EXCEPT
            !.production_cost = IF @ # None THEN @ ELSE 0,
            !.holding_cost = Max0(IF @ # None THEN @ ELSE 0),
            !.initial_inventory = initial,
            !.max_capacity = max_cap,
            !.safety_stock = IF safety0 > max_cap THEN max_cap ELSE safety0,
            !.max_production_per_period = IF @ # None THEN Max0(@) ELSE None]

(* plants_by_id = {p["id"]: p for p in plants}: the last plant of an id *)
plants_by_id(plants, id) ==
    plants[MaxOf({i \in DOMAIN plants : plants[i].id = id})]

(* the modes _clean_routes keeps of a route, with their figures coerced *)
clean_modes(modes) ==
    LET Kept(m) == m.capacity_per_trip # None /\ m.capacity_per_trip # 0
        kept == SelectSeq(modes, Kept)
    IN  [k \in DOMAIN kept |->
            [kept[k] EXCEPT
                !.capacity_per_trip = IF Max0(@) = 0 THEN 1 ELSE Max0(@),
                !.unit_cost = Max0(OrZero(@))]]

(* _clean_routes: the routes kept, in order *)
RECURSIVE clean_routes(_, _)
clean_routes(plants, routes) ==
    IF routes = <<>> THEN <<>>
    ELSE LET route == Head(routes)
             origin_id == route.origin_id
             destination_id == route.destination_id
             rest == clean_routes(plants, Tail(routes))
         IN  IF Truthy(origin_id) /\ Truthy(destination_id)
                /\ origin_id = destination_id
             THEN rest
             ELSE IF /\ origin_id \in {plants[i].id : i \in DOMAIN plants}
                     /\ plants_by_id(plants, origin_id).type = "IU"
                     /\ clean_modes(route.modes) # <<>>
             THEN <<[route EXCEPT !.modes = clean_modes(@)]>> \o rest
             ELSE rest

(* the body of _load_and_clean_data on the dict get_initial_data returned *)
load_and_clean(data) ==
    LET plants == [i \in DOMAIN data.plants |-> sanitize_plant(data.plants[i])]
    IN  [data EXCEPT !.plants = plants,
                     !.routes = clean_routes(plants, data.routes)]

(* get_initial_data: the cached dict, or the one built on a miss *)
get_initial_data(cache, built) == IF cache = NoStore THEN built ELSE cache.data

(* the dicts build_initial_data can make: the figures of a plant come      *)
(* from the tables unchecked                                               *)
RawPlants ==
    {PlantOut("P1", "IU", initial, cap, safety, 1, cost, maxprod) :
        initial \in {-2, 0, 3}, cap \in {-2, 0, 1, 3}, safety \in {-2, 0, 1, 3},
        cost \in {None, -2, 1}, maxprod \in {None, -2, 0, 2}}

RawConsumer == PlantOut("C1", "GU", 0, 2, 0, 1, None, None)

RawRouteLists ==
    { <<>>,
      <<Route("P1->C1", "P1", "C1", 0, <<Mode("t1", 1, 2)>>)>>,
      <<Route("P1->C1", "P1", "C1", 0,
              <<Mode("t1", -2, -2), Mode("t2", None, 0), Mode("t1", 1, 2)>>)>>,
      <<Route("P1->C1", "P1", "C1", 0, <<Mode("t1", 1, 0)>>),
        Route("P1->P1", "P1", "P1", 0, <<Mode("t1", 1, 2)>>)>>,
      <<Route("C1->P1", "C1", "P1", 0, <<Mode("t1", 1, 2)>>),
        Route("P1->C1", "P1", "C1", 0, <<Mode("t2", 0, 2)>>)>>,
      <<Route("P9->C1", "P9", "C1", 0, <<Mode("t1", 1, 2)>>),
        Route("P1->C9", "P1", "C9", 0, <<Mode("t1", 1, 2)>>)>> }

RawPayloads ==
    {[T |-> 1, plants |-> <<p, RawConsumer>>, routes |-> rts,
      demand |-> [pid \in {"P1", "C1"} |-> <<0>>]] :
        p \in RawPlants, rts \in RawRouteLists}

InitLoader ==
    /\ entry = "initial_data"
    /\ req \in RawPayloads
    /\ rows = <<>>
    /\ emergency = FALSE
    /\ pc = "idle"
    /\ idx = 0
    /\ cons = NoConstraints
    /\ qtyIndex = {}
    /\ vals = NoVals
    /\ base = NoResult
    /\ fallback = NoResult
    /\ solves = <<>>
    /\ result = NoPayload
    /\ response = NoResponse
    /\ store = NoStore
    /\ returned = <<>>

(* GET /initial-data: data = _load_and_clean_data(...), returned as it is. *)
(* The dict is cached on the first call and sanitised by every call.       *)
initial_data ==
    /\ entry = "initial_data"
    /\ Len(returned) < MaxCalls
    /\ LET data == load_and_clean(get_initial_data(store, req))
       IN  /\ store' = [data |-> data]
           /\ result' = data
           /\ returned' = Append(returned, data)
    /\ pc' = "cleaned"
    /\ UNCHANGED <<entry, req, rows, emergency, idx, cons, qtyIndex, vals, base,
                   fallback, solves, response>>

NextLoader == initial_data

SpecLoader == InitLoader /\ [][NextLoader]_vars

----------------------------------------------------------------------------
(* POST /optimize-with-constraints/upload of app/main_v2.py: the uploaded  *)
(* constraint table is parsed, the server's data loaded and cleaned, and   *)
(* the request built from both is solved                                   *)

(* a cell of the uploaded table: x or the next alias ... or the default *)
CellOr(x, default) == IF x = NoneStr \/ x = "" THEN default ELSE x

(* the arguments _parse_constraint_csv gives ConstraintRow for a row *)
parsed_row(raw) ==
    [iu_code |-> Strip(CellOr(raw.iu_code, "")),
     transport_code |-> CellOr(raw.transport_code, NoneStr),
     iugu_code |-> CellOr(raw.iugu_code, NoneStr),
     time_period |-> IF raw.time_period = None THEN 0 ELSE raw.time_period,
     bound_type |-> Upper(Strip(CellOr(raw.bound_type, ""))),
     value |-> IF raw.value = None THEN 0 ELSE raw.value]

(* _parse_constraint_csv: the rows ConstraintRow accepts; a row that       *)
(* raises is passed over                                                   *)
RECURSIVE parse_constraint_csv(_)
parse_constraint_csv(file) ==
    IF file = <<>> THEN <<>>
    ELSE LET args == parsed_row(Head(file))
         IN  (IF RowAccepted(args) THEN <<trim_codes(args)>> ELSE <<>>)
                 \o parse_constraint_csv(Tail(file))

(* rows of an uploaded IUGUConstraint.csv; None is a blank cell *)
CsvRows ==
    { RawRow("P1", "", "", 1, "u", 1),
      RawRow("P1", "T1", "C1", 1, "L", 0),
      RawRow("", "T1", "C1", 1, "U", 1),
      RawRow("P1", "T1", "C1", None, "U", 1),
      RawRow("P1", "T1", "C1", 1, "X", 1),
      RawRow("P1", "T1", "C1", 1, "U", -2) }

(* the server's data: a producer with stock, a consumer with demand *)
ServerPayloads ==
    {[T |-> 1,
      plants |-> <<PlantOut("P1", "IU", 2, cap, 0, 1, 1, maxprod),
                   PlantOut("C1", "GU", 0, 2, 0, 1, None, None)>>,
      routes |-> <<Route("P1->C1", "P1", "C1", 0, <<Mode("t1", 1, 2)>>)>>,
      demand |-> [pid \in {"P1", "C1"} |-> IF pid = "C1" THEN <<d>> ELSE <<0>>]] :
        cap \in {0, 2}, maxprod \in {None, 0}, d \in {0, 2}}

InitUpload ==
    /\ entry = "optimize_with_constraints_upload"
    /\ req \in [constraints_file : SeqsUpTo(CsvRows, MaxRows),
                real_data : ServerPayloads]
    /\ rows = <<>>
    /\ emergency = FALSE
    /\ pc = "upload"
    /\ idx = 0
    /\ cons = NoConstraints
    /\ qtyIndex = {}
    /\ vals = NoVals
    /\ base = NoResult
    /\ fallback = NoResult
    /\ solves = <<>>
    /\ result = NoResult
    /\ response = NoResponse
    /\ store = NoStore
    /\ returned = <<>>

(* the handler, to its response or to OptimizationError *)
optimize_with_constraints_upload ==
    /\ pc = "upload"
    /\ LET constraint_rows == parse_constraint_csv(req.constraints_file)
           data == load_and_clean(get_initial_data(store, req.real_data))
       IN  /\ rows' = constraint_rows
           /\ store' = [data |-> data]
           /\ IF ~validate_network(data)
              THEN /\ pc' = "raised"
                   /\ UNCHANGED <<result, vals, solves, response>>
              ELSE \E o \in SolveOutcomes("basic", data, constraint_rows, FALSE) :
                      /\ result' = o.result
                      /\ vals' = o.vals
                      /\ solves' = IF o.raised THEN solves
                                   ELSE Append(solves, <<FALSE, o.result.status>>)
                      /\ response' = IF o.raised THEN response
                                     ELSE OptimizationResponse(o.result.status,
                                                               o.result)
                      /\ pc' = IF ~o.raised /\ response'.built
                               THEN "responded" ELSE "raised"
    /\ UNCHANGED <<entry, req, emergency, idx, cons, qtyIndex, base, fallback,
                   returned>>

NextUpload == optimize_with_constraints_upload

SpecUpload == InitUpload /\ [][NextUpload]_vars

----------------------------------------------------------------------------
(* app/milp_optimizer.py: the single-route MILP report of GET /api/route *)

(* df[...]['COL'].values[0] if not df[...].empty else 0: the first row *)
first_value(tbl, hits, field) ==
    IF hits = {} THEN 0 ELSE tbl[MinOf(hits)][field]

(* int(x / y + 0.5) for whole x >= 0 and y > 0 *)
int_half_up(x, y) == (2 * x + y) \div (2 * y)

(* 3000 if mode == 'T2' else 25 *)
vehicle_capacity_of(mode) == IF mode = "T2" THEN 3000 ELSE 25

(* source_closing_req <= source_ending_inv <= 100000 *)
source_max_inventory == 100000

(* calculate_milp_solution over the tables the CSV loaders return; the     *)
(* costs, metrics and raw_data of the report are computed from the same    *)
(* figures and are left out                                                *)
calculate_milp_solution(tb, source, destination, mode, period) ==
    LET route == {i \in DOMAIN tb.logistics :
                     /\ tb.logistics[i].from_iu_code = source
                     /\ tb.logistics[i].to_iugu_code = destination
                     /\ tb.logistics[i].transport_code = mode
                     /\ tb.logistics[i].time_period = period}
        source_capacity ==
            first_value(tb.capacity,
                        {i \in DOMAIN tb.capacity :
                            /\ tb.capacity[i].iu_code = source
                            /\ tb.capacity[i].time_period = period},
                        "capacity")
        demand_at(code) ==
            first_value(tb.demand,
                        {i \in DOMAIN tb.demand :
                            /\ tb.demand[i].iugu_code = code
                            /\ tb.demand[i].time_period = period},
                        "demand")
        opening_at(code) ==
            first_value(tb.opening,
                        {i \in DOMAIN tb.opening :
                            tb.opening[i].iugu_code = code},
                        "opening_stock")
        closing_at(code) ==
            first_value(tb.closing,
                        {i \in DOMAIN tb.closing :
                            tb.closing[i].iugu_code = code},
                        "min_close_stock")
        destination_demand == demand_at(destination)
        source_opening_inv == opening_at(source)
        dest_opening_inv == opening_at(destination)
        source_closing_req == closing_at(source)
        dest_closing_req == closing_at(destination)
        vehicle_capacity == vehicle_capacity_of(mode)
        wanted == IF destination_demand < source_capacity
                  THEN destination_demand ELSE source_capacity
        num_trips == int_half_up(wanted, vehicle_capacity)
        shipment_quantity == num_trips * vehicle_capacity
        needed == shipment_quantity + source_closing_req - source_opening_inv
        capped == IF needed < source_capacity THEN needed ELSE source_capacity
        production == IF capped < 0 THEN 0 ELSE capped
        source_ending_inv == source_opening_inv + production - shipment_quantity
        dest_ending_inv ==
            dest_opening_inv + shipment_quantity - destination_demand
    IN  IF route = {} THEN [success |-> FALSE, error |-> "Route not found"]
        ELSE [success |-> TRUE,
              feasibility |-> [is_feasible |-> TRUE, issues |-> <<>>],
              decision_variables |->
                  [P |-> production, X |-> shipment_quantity,
                   I_source |-> source_ending_inv,
                   I_dest |-> dest_ending_inv,
                   T |-> [value |-> num_trips,
                          formula |-> [ceil_of |-> shipment_quantity,
                                       over |-> vehicle_capacity,
                                       equals |-> num_trips]]],
              mass_balance |->
                  [source |->
                       [opening_inventory |-> source_opening_inv,
                        production |-> production, inbound |-> 0,
                        outbound |-> shipment_quantity,
                        demand |-> demand_at(source),
                        ending_inventory |-> source_ending_inv],
                   destination |->
                       [opening_inventory |-> dest_opening_inv,
                        production |-> 0, inbound |-> shipment_quantity,
                        outbound |-> 0, demand |-> destination_demand,
                        ending_inventory |-> dest_ending_inv]],
              constraints |->
                  [production_capacity |->
                       [satisfied |-> production <= source_capacity],
                   shipment_capacity |->
                       [satisfied |->
                            shipment_quantity <= num_trips * vehicle_capacity],
                   source_inventory |->
                       [satisfied |->
                            /\ source_closing_req <= source_ending_inv
                            /\ source_ending_inv <= source_max_inventory],
                   destination_inventory |->
                       [satisfied |-> dest_closing_req <= dest_ending_inv]]]

(* the tables of a route P1 -> C1 by road and by rail in period 1 *)
RouteLogistics == <<LogisticsRow("P1", "C1", "T1", 1, 2, 1, 2),
                    LogisticsRow("P1", "C1", "T2", 1, 2, 1, 2)>>

RouteDemands == {<<DemandRow("C1", 1, d)>> \o s :
                    d \in {0, 10, 30, 1500},
                    s \in {<<>>, <<DemandRow("P1", 1, 5)>>}}

RouteCapacities == {<<CapacityRow("P1", 1, c)>> : c \in {0, 25, 100, 3000}}

RouteOpenings == {<<OpeningRow("P1", o[1]), OpeningRow("C1", o[2])>> :
                     o \in {0, 50} \X {0, 10}}

RouteClosings == {<<ClosingRow("P1", 1, c[1], 0), ClosingRow("C1", 1, c[2], 0)>> :
                     c \in {0, 20} \X {0, 5}}

RouteQueries ==
    [tables : [logistics : {RouteLogistics}, demand : RouteDemands,
               capacity : RouteCapacities, opening : RouteOpenings,
               closing : RouteClosings],
     source : {"P1"}, destination : {"C1"}, mode : {"T1", "T2"},
     period : {1, 2}]

InitRoute ==
    /\ entry = "calculate_milp_solution"
    /\ req \in RouteQueries
    /\ rows = <<>>
    /\ emergency = FALSE
    /\ pc = "query"
    /\ idx = 0
    /\ cons = NoConstraints
    /\ qtyIndex = {}
    /\ vals = NoVals
    /\ base = NoResult
    /\ fallback = NoResult
    /\ solves = <<>>
    /\ result = NoPayload
    /\ response = NoResponse
    /\ store = NoStore
    /\ returned = <<>>

(* one call of calculate_milp_solution *)
CalculateMilpSolution ==
    /\ entry = "calculate_milp_solution" /\ pc = "query"
    /\ result' = calculate_milp_solution(req.tables, req.source,
                                         req.destination, req.mode, req.period)
    /\ pc' = "reported"
    /\ UNCHANGED <<entry, req, rows, emergency, idx, cons, qtyIndex, vals,
                   base, fallback, solves, response, store, returned>>

NextRoute == CalculateMilpSolution

SpecRoute == InitRoute /\ [][NextRoute]_vars

----------------------------------------------------------------------------
(* app/main.py: POST /api/upload and the lookups over uploaded_data_store *)

(* the keys of required_sheets, in the order of the dict *)
RequiredSheetNames == <<"IUGUType", "LogisticsIUGU", "ClinkerCapacity",
                        "ClinkerDemand", "ProductionCost", "IUGUOpeningStock",
                        "IUGUClosingStock">>

(* a DataFrame: its columns and its rows; NoSheet is the None of a sheet   *)
(* the workbook lacks                                                      *)
Frame(cols, data) == [present |-> TRUE, columns |-> cols, data |-> data]

NoSheet == [present |-> FALSE]

(* Python's ordering of the strings of the lookups (code points) *)
LookupRank(s) == CASE s = "1" -> 1
                   [] s = "10" -> 2
                   [] s = "2" -> 3
                   [] s = "GU_1" -> 4
                   [] s = "IU_1" -> 5
                   [] s = "IU_2" -> 6
                   [] s = "T1" -> 7
                   [] s = "T2" -> 8
                   [] s = "T3" -> 9
                   [] OTHER -> 10

(* sorted(...) of distinct strings *)
RECURSIVE sorted_strs(_)
sorted_strs(S) ==
    IF S = {} THEN <<>>
    ELSE LET x == CHOOSE y \in S : \A z \in S : LookupRank(y) <= LookupRank(z)
         IN  <<x>> \o sorted_strs(S \ {x})

(* str(p) of a TIME PERIOD *)
period_str(p) == CASE p = 1 -> "1"
                   [] p = 2 -> "2"
                   [] p = 10 -> "10"
                   [] OTHER -> "?"

(* int(period) of a query string; None stands for the ValueError *)
period_int(s) == CASE s = "1" -> 1
                   [] s = "2" -> 2
                   [] s = "10" -> 10
                   [] OTHER -> None

(* s.startswith('IU_') *)
startswith_IU(s) == s \in {"IU_1", "IU_2"}

(* Series.unique().tolist(): the values in order of first appearance *)
RECURSIVE unique(_)
unique(s) ==
    IF s = <<>> THEN <<>>
    ELSE LET front == unique(SubSeq(s, 1, Len(s) - 1))
             last == s[Len(s)]
         IN  IF last \in Range(front) THEN front ELSE Append(front, last)

LogisticsColumns == {"FROM IU CODE", "TO IUGU CODE", "TRANSPORT CODE",
                     "TIME PERIOD"}

TypeColumns == {"IUGU CODE", "PLANT TYPE"}

(* logistics_df[logistics_df['TRANSPORT CODE'] != 'T3'] *)
without_sea(data) == SelectSeq(data, LAMBDA r : r.transport_code # "T3")

(* what a function of the store hands back: a value, or the KeyError of a  *)
(* column the frame lacks                                                  *)
Returns(v) == [raised |-> FALSE, value |-> v]

Raises == [raised |-> TRUE]

(* get_sources_from_store *)
get_sources_from_store(data_store) ==
    LET iugu_type_df == data_store["IUGUType"]
        logistics_df == data_store["LogisticsIUGU"]
    IN  IF ~iugu_type_df.present \/ ~logistics_df.present THEN Returns(<<>>)
        ELSE IF ~(LogisticsColumns \subseteq logistics_df.columns)
                  \/ ~(TypeColumns \subseteq iugu_type_df.columns)
        THEN Raises
        ELSE LET iu_codes ==
                     {iugu_type_df.data[i].iugu_code :
                         i \in {j \in DOMAIN iugu_type_df.data :
                                   iugu_type_df.data[j].plant_type = "IU"}}
                 available_sources ==
                     {r.from_iu_code :
                         r \in Range(without_sea(logistics_df.data))}
             IN  Returns(sorted_strs(iu_codes \cap available_sources))

(* get_destinations_from_store *)
get_destinations_from_store(data_store, source) ==
    LET logistics_df == data_store["LogisticsIUGU"]
    IN  IF ~logistics_df.present THEN Returns(<<>>)
        ELSE IF ~(LogisticsColumns \subseteq logistics_df.columns) THEN Raises
        ELSE Returns(sorted_strs(
                 {r.to_iugu_code :
                     r \in {q \in Range(without_sea(logistics_df.data)) :
                               q.from_iu_code = source}}))

(* mode_mapping of get_transport_modes_from_store *)
store_mode(code) ==
    [code |-> code, name |-> IF code = "T1" THEN "Road" ELSE "Rail",
     vehicle_capacity |-> vehicle_capacity_of(code)]

(* get_transport_modes_from_store: the codes in order of appearance *)
get_transport_modes_from_store(data_store, source, destination) ==
    LET logistics_df == data_store["LogisticsIUGU"]
    IN  IF ~logistics_df.present THEN Returns(<<>>)
        ELSE IF ~(LogisticsColumns \subseteq logistics_df.columns) THEN Raises
        ELSE LET filtered ==
                     SelectSeq(without_sea(logistics_df.data),
                               LAMBDA r : /\ r.from_iu_code = source
                                          /\ r.to_iugu_code = destination)
                 transport_codes ==
                     unique([i \in DOMAIN filtered |->
                                filtered[i].transport_code])
                 known == SelectSeq(transport_codes,
                                    LAMBDA c : c \in {"T1", "T2"})
             IN  Returns([i \in DOMAIN known |-> store_mode(known[i])])

(* get_periods_from_store: the periods of every row, as sorted strings   *)
get_periods_from_store(data_store) ==
    LET logistics_df == data_store["LogisticsIUGU"]
    IN  IF ~logistics_df.present THEN Returns(<<>>)
        ELSE IF "TIME PERIOD" \notin logistics_df.columns THEN Raises
        ELSE Returns(sorted_strs({period_str(r.time_period) :
                                     r \in Range(logistics_df.data)}))

(* calculate_milp_from_store, which catches what it raises; the figures of *)
(* its report are left out                                                 *)
calculate_milp_from_store(data_store, source, destination, mode, period) ==
    LET logistics_df == data_store["LogisticsIUGU"]
        missing == \E i \in DOMAIN RequiredSheetNames :
                       ~data_store[RequiredSheetNames[i]].present
        caught == \/ period_int(period) = None
                  \/ ~(LogisticsColumns \subseteq logistics_df.columns)
        route_data ==
            SelectSeq(logistics_df.data,
                      LAMBDA r : /\ r.from_iu_code = source
                                 /\ r.to_iugu_code = destination
                                 /\ r.transport_code = mode
                                 /\ r.time_period = period_int(period))
    IN  IF missing
        THEN [success |-> FALSE,
              feasibility |-> [feasible |-> FALSE, reason |-> "Missing data"]]
        ELSE IF caught
        THEN [success |-> FALSE,
              feasibility |-> [feasible |-> FALSE, reason |-> "str(e)"]]
        ELSE IF route_data = <<>>
        THEN [success |-> FALSE,
              feasibility |-> [feasible |-> FALSE,
                               reason |-> "Route not found in data"]]
        ELSE [success |-> TRUE]

(* the tables of real_data/ that the CSV loaders read *)
CsvTables ==
    [logistics |-> <<LogisticsRow("IU_1", "GU_1", "T1", 1, 2, 1, 2),
                     LogisticsRow("IU_1", "GU_1", "T3", 1, 2, 1, 2),
                     LogisticsRow("IU_1", "GU_1", "T2", 2, 2, 1, 2)>>,
     demand |-> <<DemandRow("GU_1", 1, 30)>>,
     capacity |-> <<CapacityRow("IU_1", 1, 100)>>,
     opening |-> <<OpeningRow("IU_1", 50)>>,
     closing |-> <<ClosingRow("IU_1", 1, 20, 0)>>]

(* csv_data_loader.get_sources *)
get_csv_sources ==
    sorted_strs({c \in {r.from_iu_code :
                           r \in Range(without_sea(CsvTables.logistics))} :
                    startswith_IU(c)})

(* csv_data_loader.get_destinations *)
get_csv_destinations(source) ==
    sorted_strs({r.to_iugu_code :
                    r \in {q \in Range(without_sea(CsvTables.logistics)) :
                              q.from_iu_code = source}})

(* mode_mapping of csv_data_loader.get_transport_modes *)
csv_mode(code) ==
    [code |-> code,
     name |-> IF code = "T1" THEN "Road (T1)" ELSE "Rail (T2)",
     vehicle_capacity |-> vehicle_capacity_of(code)]

(* csv_data_loader.get_transport_modes: sorted by code *)
get_transport_modes(source, destination) ==
    LET codes == sorted_strs(
                     {r.transport_code :
                         r \in {q \in Range(without_sea(CsvTables.logistics)) :
                                   /\ q.from_iu_code = source
                                   /\ q.to_iugu_code = destination}})
    IN  [i \in DOMAIN codes |-> csv_mode(codes[i])]

(* csv_data_loader.get_periods: sorted as numbers, then str *)
get_csv_periods ==
    LET ps == {r.time_period : r \in Range(CsvTables.logistics)}
        RECURSIVE asc(_)
        asc(S) == IF S = {} THEN <<>>
                  ELSE <<period_str(MinOf(S))>> \o asc(S \ {MinOf(S)})
    IN  asc(ps)

(* the sheets of the uploaded workbooks *)
UploadedTypes ==
    Frame(TypeColumns, <<[iugu_code |-> "IU_2", plant_type |-> "IU"],
                         [iugu_code |-> "GU_1", plant_type |-> "GU"]>>)

UploadedLogisticsData ==
    <<LogisticsRow("IU_2", "GU_1", "T2", 2, 2, 1, 2),
      LogisticsRow("IU_2", "GU_1", "T1", 10, 2, 1, 2),
      LogisticsRow("IU_2", "GU_1", "T3", 1, 2, 1, 2)>>

UploadedLogistics == Frame(LogisticsColumns \cup {"FREIGHT COST"},
                           UploadedLogisticsData)

(* a LogisticsIUGU sheet without the TRANSPORT CODE column *)
UploadedLogisticsNoCode ==
    Frame({"FROM IU CODE", "TO IUGU CODE", "TIME PERIOD"},
          UploadedLogisticsData)

SheetOf(name, logistics) ==
    CASE name = "IUGUType" -> UploadedTypes
      [] name = "LogisticsIUGU" -> logistics
      [] OTHER -> Frame({}, <<>>)

(* an uploaded file: one pd.ExcelFile can open or not, and its sheets *)
Workbook(names, logistics) ==
    [readable |-> TRUE, sheets |-> [n \in names |-> SheetOf(n, logistics)]]

UploadedFiles ==
    {[readable |-> FALSE, sheets |-> <<>>],
     Workbook({}, UploadedLogistics),
     Workbook({"Sheet1"}, UploadedLogistics),
     Workbook({"IUGUType"}, UploadedLogistics),
     Workbook({"LogisticsIUGU"}, UploadedLogistics),
     Workbook(Range(RequiredSheetNames), UploadedLogistics),
     Workbook(Range(RequiredSheetNames), UploadedLogisticsNoCode)}

QuerySources == {"IU_1", "IU_2"}

QueryDestinations == {"GU_1"}

QueryModes == {"T1", "T3"}

QueryPeriods == {"1", "2", "x"}

InitLookup ==
    /\ entry = "app"
    /\ req = <<>>
    /\ rows = <<>>
    /\ emergency = FALSE
    /\ pc = "idle"
    /\ idx = 0
    /\ cons = NoConstraints
    /\ qtyIndex = {}
    /\ vals = NoVals
    /\ base = NoResult
    /\ fallback = NoResult
    /\ solves = <<>>
    /\ result = NoPayload
    /\ response = NoResponse
    /\ store = NoStore
    /\ returned = <<>>

(* what a handler leaves alone, and the record of its answer *)
Answered(name, request, answer) ==
    /\ entry' = name
    /\ req' = request
    /\ result' = answer
    /\ returned' = Append(returned, answer)
    /\ pc' = "answered"
    /\ UNCHANGED <<rows, emergency, idx, cons, qtyIndex, vals, base,
                   fallback, solves, response>>

(* if uploaded_data_store: a dict with keys is true, whatever its values *)
store_is_truthy == DOMAIN store # {}

(* the answer of a lookup over the store; FastAPI turns an exception that  *)
(* leaves the handler into a 500                                           *)
FromStore(field, got) ==
    IF got.raised THEN [status_code |-> 500]
    ELSE [source |-> "uploaded"] @@ (field :> got.value)

FromCsv(field, value) == [source |-> "csv"] @@ (field :> value)

(* POST /api/upload *)
upload_excel ==
    /\ Len(returned) < MaxCalls
    /\ \E file \in UploadedFiles :
        LET required_sheets ==
                [n \in Range(RequiredSheetNames) |->
                    IF n \in DOMAIN file.sheets THEN file.sheets[n]
                    ELSE NoSheet]
            logistics_df == required_sheets["LogisticsIUGU"]
            iugu_type_df == required_sheets["IUGUType"]
            kept == without_sea(logistics_df.data)
            period_list == IF logistics_df.present
                       THEN sorted_strs({period_str(r.time_period) :
                                            r \in Range(kept)})
                       ELSE <<>>
            failed == [success |-> FALSE]
        IN  IF ~file.readable
            THEN /\ store' = store
                 /\ Answered("upload_excel", file, failed)
            ELSE /\ store' = required_sheets
                 /\ IF logistics_df.present
                        /\ ~({"TRANSPORT CODE", "TIME PERIOD"}
                                \subseteq logistics_df.columns)
                    THEN Answered("upload_excel", file, failed)
                    ELSE Answered("upload_excel", file,
                             [success |-> TRUE,
                              sheets_found |->
                                  SelectSeq(RequiredSheetNames,
                                      LAMBDA n : required_sheets[n].present),
                              total_routes |->
                                  IF logistics_df.present THEN Len(kept)
                                  ELSE 0,
                              total_plants |->
                                  IF iugu_type_df.present
                                  THEN Len(iugu_type_df.data) ELSE 0,
                              total_periods |-> Len(period_list),
                              periods |-> period_list])

(* GET /api/sources *)
get_sources ==
    /\ Len(returned) < MaxCalls
    /\ Answered("get_sources", <<>>,
                IF store_is_truthy
                THEN FromStore("sources", get_sources_from_store(store))
                ELSE FromCsv("sources", get_csv_sources))
    /\ store' = store

(* GET /api/destinations/{source} *)
get_destinations ==
    /\ Len(returned) < MaxCalls
    /\ \E source \in QuerySources :
        Answered("get_destinations", [source |-> source],
                 IF store_is_truthy
                 THEN FromStore("destinations",
                                get_destinations_from_store(store, source))
                 ELSE FromCsv("destinations", get_csv_destinations(source)))
    /\ store' = store

(* GET /api/modes/{source}/{destination} *)
get_modes ==
    /\ Len(returned) < MaxCalls
    /\ \E source \in QuerySources, destination \in QueryDestinations :
        Answered("get_modes", [source |-> source, destination |-> destination],
                 IF store_is_truthy
                 THEN FromStore("modes",
                                get_transport_modes_from_store(
                                    store, source, destination))
                 ELSE FromCsv("modes",
                              get_transport_modes(source, destination)))
    /\ store' = store

(* GET /api/periods *)
get_periods ==
    /\ Len(returned) < MaxCalls
    /\ Answered("get_periods", <<>>,
                IF store_is_truthy
                THEN FromStore("periods", get_periods_from_store(store))
                ELSE FromCsv("periods", get_csv_periods))
    /\ store' = store

(* GET /api/route; int(period) raises inside the handler's try *)
get_route_analysis ==
    /\ Len(returned) < MaxCalls
    /\ \E source \in QuerySources, destination \in QueryDestinations,
          mode \in QueryModes, period \in QueryPeriods :
        Answered("get_route_analysis",
                 [source |-> source, destination |-> destination,
                  mode |-> mode, period |-> period],
                 IF store_is_truthy
                 THEN calculate_milp_from_store(store, source, destination,
                                                mode, period)
                          @@ [data_source |-> "uploaded"]
                 ELSE IF period_int(period) = None
                 THEN [success |-> FALSE, error |-> "str(e)"]
                 ELSE calculate_milp_solution(CsvTables, source, destination,
                                              mode, period_int(period))
                          @@ [data_source |-> "csv"])
    /\ store' = store

NextLookup ==
    \/ upload_excel
    \/ get_sources
    \/ get_destinations
    \/ get_modes
    \/ get_periods
    \/ get_route_analysis

SpecLookup == InitLookup /\ [][NextLookup]_vars

----------------------------------------------------------------------------
(* The Assembler's payload *)

Assembled == pc = "assembled"

(* the TIME PERIOD values of the demand, capacity and logistics tables *)
ObservedPeriods ==
    {req.demand[i].time_period : i \in DOMAIN req.demand}
        \cup {req.capacity[i].time_period : i \in DOMAIN req.capacity}
        \cup {req.logistics[i].time_period : i \in DOMAIN req.logistics}

SeriesHaveLength(n) ==
    \A pid \in DOMAIN result.demand : Len(result.demand[pid]) = n

(* C21 as stated: the horizon of the assembled payload is max(1, the       *)
(* greatest TIME PERIOD of the demand, capacity and logistics tables), and *)
(* every demand series has that many entries                               *)
C21_HorizonIsObservedMaximum ==
    Assembled =>
        /\ result.T = MaxOf({1} \cup ObservedPeriods)
        /\ SeriesHaveLength(result.T)

(* C21: the horizon of the payload of _build_from_new_real_data is the     *)
(* greatest of the requested horizon T, 1 and the TIME PERIOD values of    *)
(* the demand, capacity and logistics tables; the payload of               *)
(* _build_optimization_request_from_csvs keeps the requested horizon T;    *)
(* in both every demand series has exactly as many entries as the horizon  *)
C21_HorizonIsRequestedOrObserved ==
    Assembled =>
        /\ entry = "_build_from_new_real_data"
               => result.T = MaxOf({req.T, 1} \cup ObservedPeriods)
        /\ entry = "_build_optimization_request_from_csvs" => result.T = req.T
        /\ SeriesHaveLength(result.T)

(* a payload whose horizon was stretched by a period beyond the requested  *)
(* horizon, with a demand in that period                                   *)
C21_Witness ==
    /\ Assembled
    /\ entry = "_build_from_new_real_data"
    /\ req.T < MaxOf({1} \cup ObservedPeriods)
    /\ result.T = MaxT + 1
    /\ \E pid \in DOMAIN result.demand : result.demand[pid][result.T] > 0

(* no two rows of the logistics table are the same row *)
DistinctLogisticsRows ==
    \A i, j \in DOMAIN req.logistics :
        req.logistics[i] = req.logistics[j] => i = j

(* C22 as stated: one route per (origin, destination), and in it one mode  *)
(* entry per mode code, whose unit cost is the average of freight +        *)
(* handling over the rows of that mode and whose capacity is the observed  *)
(* multiplier                                                              *)
C22_OneAveragedModePerCode ==
    (Assembled /\ DistinctLogisticsRows) =>
        /\ \A i, j \in DOMAIN result.routes :
               (/\ result.routes[i].origin_id = result.routes[j].origin_id
                /\ result.routes[i].destination_id
                       = result.routes[j].destination_id) => i = j
        /\ \A i \in DOMAIN result.routes :
               LET rt == result.routes[i]
                   RowsOf(code) ==
                       {k \in DOMAIN req.logistics :
                           /\ req.logistics[k].from_iu_code = rt.origin_id
                           /\ req.logistics[k].to_iugu_code = rt.destination_id
                           /\ Lower(req.logistics[k].transport_code) = Lower(code)}
               IN  /\ \A a, b \in DOMAIN rt.modes :
                          rt.modes[a].mode = rt.modes[b].mode => a = b
                   /\ \A a \in DOMAIN rt.modes :
                          /\ rt.modes[a].unit_cost
                                 * Cardinality(RowsOf(rt.modes[a].mode))
                             = SumSeq([n \in 1..Cardinality(RowsOf(rt.modes[a].mode)) |->
                                   LET k == SetToSeq(RowsOf(rt.modes[a].mode))[n]
                                   IN  req.logistics[k].freight_cost
                                       + req.logistics[k].handling_cost])
                          /\ \E k \in RowsOf(rt.modes[a].mode) :
                                 rt.modes[a].capacity_per_trip
                                     = req.logistics[k].quantity_multiplier

(* C23 as stated: every plant of the payload has initial_inventory <=      *)
(* max_capacity, safety_stock <= max_capacity and max_capacity > 0, with   *)
(* safety_stock and max_capacity taken over all the periods of the         *)
(* closing-stock table                                                     *)
C23_StockBoundsClamped ==
    Assembled =>
        \A i \in DOMAIN result.plants :
            LET p == result.plants[i]
                mine == {k \in DOMAIN req.closing :
                            req.closing[k].iugu_code = p.id}
            IN  /\ p.initial_inventory <= p.max_capacity
                /\ p.safety_stock <= p.max_capacity
                /\ p.max_capacity > 0
                /\ (mine # {} /\ p.safety_stock < p.max_capacity)
                       => p.safety_stock
                              = MinOf({req.closing[k].min_close_stock : k \in mine})

----------------------------------------------------------------------------
(* The loader and the constraint upload *)

(* a row of the uploaded table without producer, with a period below 1,    *)
(* with a bound kind outside L, U, E, G or with a negative value           *)
InvalidCsvRow(raw) ==
    \/ CellOr(raw.iu_code, "") = ""
    \/ raw.time_period = None \/ raw.time_period < 1
    \/ Upper(Strip(raw.bound_type)) \notin {"L", "U", "E", "G"}
    \/ (raw.value # None /\ raw.value < 0)

(* C24 as stated: an uploaded constraint table with an invalid row is      *)
(* rejected, and nothing is solved with the remaining rows                 *)
C24_InvalidRowRejectsLoad ==
    (/\ entry = "optimize_with_constraints_upload"
     /\ pc # "upload"
     /\ \E i \in DOMAIN req.constraints_file :
            InvalidCsvRow(req.constraints_file[i]))
        => (pc = "raised" /\ solves = <<>>)

(* C25: every call of _load_and_clean_data with the arguments of the run   *)
(* returns the payload the first call returned, and cleaning the payload   *)
(* a call returned changes nothing                                         *)
C25_LoadIdempotent ==
    /\ \A i \in DOMAIN returned : returned[i] = returned[1]
    /\ pc = "cleaned" =>
           /\ \A i \in DOMAIN result.plants :
                  sanitize_plant(result.plants[i]) = result.plants[i]
           /\ clean_routes(result.plants, result.routes) = result.routes

(* the cached dict was returned MaxCalls times, and the first call changed *)
(* a plant and dropped a route                                             *)
C25_Witness ==
    /\ pc = "cleaned"
    /\ Len(returned) = MaxCalls
    /\ store.data = result
    /\ result.plants # req.plants
    /\ Len(result.routes) < Len(req.routes)

(* C27 as stated: a plant that went through _sanitize_plant satisfies the  *)
(* numeric constraints of the Plant schema                                 *)
C27_SanitizedPlantValid ==
    pc = "cleaned" =>
        \A i \in DOMAIN result.plants : PlantFieldsOK(result.plants[i])

----------------------------------------------------------------------------
(* The Pyomo applicator against the PuLP compiler *)

(* the (iu, dst, mode) arcs of model.qty as the (route, mode) entries of   *)
(* the PuLP model with the same index set                                  *)
ArcEntries(Q) ==
    SetToSeq({[route_id |-> <<k[1], k[2]>>, origin_id |-> k[1],
               destination_id |-> k[2], mode |-> k[3]] : k \in Q})

IndexHorizon(Q) == IF Q = {} THEN 0 ELSE MaxOf({k[4] : k \in Q})

(* the index set is one the PuLP solvers build: every arc in every period  *)
(* of the horizon                                                          *)
IsPuLPIndexSet(Q) ==
    Q = {<<k[1], k[2], k[3], t>> : k \in Q, t \in 1..IndexHorizon(Q)}

(* the variables the PuLP compiler sums for a validated row, as indices    *)
(* of model.qty                                                            *)
PuLPSelection(Q, row) ==
    LET ks == vars_for_row(ArcEntries(Q), IndexHorizon(Q), row)
    IN  {<<ks[j][1][1], ks[j][1][2], ks[j][2], ks[j][3]>> : j \in DOMAIN ks}

(* C26 as stated: for every row that ConstraintRow accepts and every index *)
(* set the PuLP solvers build, the Pyomo applicator constrains the same    *)
(* variables with the same relation as the PuLP compiler, in every scope   *)
(* and whatever the letter case of the mode codes                          *)
C26_PyomoMirrorsPuLP ==
    (/\ entry = "apply_strategic_constraints"
     /\ IsPuLPIndexSet(qtyIndex)
     /\ ~cons.error) =>
        \A i \in 0..(idx - 1) :
            RowAccepted(rows[i + 1]) =>
                LET row == trim_codes(rows[i + 1])
                    sel == PuLPSelection(qtyIndex, row)
                IN  IF sel = {} THEN ConsOfRow(i) = {}
                    ELSE /\ Cardinality(ConsOfRow(i)) = 1
                         /\ \A n \in ConsOfRow(i) :
                                /\ Range(cons.byName[n].vars) = sel
                                /\ cons.byName[n].rel
                                       = dyn_relation(row.bound_type)

----------------------------------------------------------------------------
(* The single-route report *)

(* opening + production + inbound - outbound - demand = ending >= 0 *)
BalanceHolds(b) ==
    /\ b.ending_inventory = b.opening_inventory + b.production + b.inbound
                                - b.outbound - b.demand
    /\ b.ending_inventory >= 0

(* C30 as stated: a report with is_feasible = true has every reported      *)
(* constraint satisfied and both mass balances holding with a non-negative *)
(* ending inventory, and the ceil formula of the trips equals the trips    *)
C30_FeasibleReportIsConsistent ==
    (pc = "reported" /\ result.success) =>
        /\ result.feasibility.is_feasible =>
               /\ result.constraints.production_capacity.satisfied
               /\ result.constraints.shipment_capacity.satisfied
               /\ result.constraints.source_inventory.satisfied
               /\ result.constraints.destination_inventory.satisfied
               /\ BalanceHolds(result.mass_balance.source)
               /\ BalanceHolds(result.mass_balance.destination)
        /\ LET f == result.decision_variables.T.formula
           IN  CeilDiv(f.ceil_of, f.over) = result.decision_variables.T.value

----------------------------------------------------------------------------
(* The lookups and the uploaded store *)

LookupHandlers == {"get_sources", "get_destinations", "get_modes",
                   "get_periods", "get_route_analysis"}

(* where an answer says its data came from *)
AnswerSource(a) ==
    IF "source" \in DOMAIN a THEN a.source
    ELSE IF "data_source" \in DOMAIN a THEN a.data_source
    ELSE "none"

(* the sheets a lookup reads *)
SheetsNeeded(handler) ==
    CASE handler = "get_sources" -> {"IUGUType", "LogisticsIUGU"}
      [] handler = "get_route_analysis" -> Range(RequiredSheetNames)
      [] OTHER -> {"LogisticsIUGU"}

(* the sheets the store holds *)
SheetsLoaded == {n \in DOMAIN store : store[n].present}

(* C28 as stated: a lookup answers from uploaded data only when the store  *)
(* holds the sheets it needs; in particular, while no upload has loaded a  *)
(* required sheet, it does not answer from uploaded data                   *)
C28_UploadedOnlyWhenSheetsLoaded ==
    (pc = "answered" /\ entry \in LookupHandlers) =>
        (AnswerSource(result) = "uploaded" =>
            SheetsNeeded(entry) \subseteq SheetsLoaded)

(* C29 as stated: the store changes only in an upload that responds with   *)
(* success = true; an upload that responds with success = false leaves it  *)
(* as it was                                                               *)
C29_FailedUploadKeepsStore ==
    [][store' # store =>
          /\ entry' = "upload_excel"
          /\ Len(returned') = Len(returned) + 1
          /\ result'.success]_vars

====
